---- MODULE Spec2Model ----
(***************************************************************************)
(* Model of the steam worker: WorkerLogic.processInvites and the send loop *)
(* sendInvitesWithEarlyDetection (worker_logic.js), SteamConnector         *)
(* (steam_connector.js, latest revision) and SteamInviteCleaner            *)
(* (steam_invite_cleaner.js).  The external steam-user client is the       *)
(* environment: it answers a request by a callback, or never, and it owns  *)
(* the relationship list myFriends.                                        *)
(***************************************************************************)
EXTENDS Integers, Sequences, FiniteSets, TLC

\* ---------------------------------------------------------------- bounds
MaxTargets == 3
MaxFriendEntries == 1
MaxHint == 1
MaxSlotsNeeded == 4
MaxOldestPending == 3
MaxCode == 90
MaxPerBatch == 2

\* ------------------------------------------------------ program constants
Null == -1
MAX_OVERALL_SLOTS == 250
ERESULT_OK == 1
ERESULT_TIMEOUT == 29
ERESULT_ALREADY_FRIENDS == 14
REL_FRIEND == 3
REL_INVITE_SENT == 4

PeerOrder == <<"p1", "p2", "p3">>
Peers == {PeerOrder[n] : n \in 1..Len(PeerOrder)}

\* mutant: code 15 is missing from the list of the codes that stop the batch
workerCooldownErrors_None == {}
workerCooldownErrors == {15}
\* mutant: code 84 is missing from the account-limit codes
accountLimitErrors_Only25 == {25}
accountLimitErrors == {25, 84}
accountBannedErrors == {17}
\* mutant: the blocked code is not definitive
definitiveErrors_No40 == {14, 17}

definitiveErrors == {14, 40, 17}
temporaryErrors == {15, 25, 29, 84}

\* eresult values the external client may hand to the addFriend callback
\* (2 stands for every code missing from both tables)
ClientErrorCodes == {2, 14, 15, 17, 25, 84}

\* --------------------------------------------------------------- helpers
Min(a, b) == IF a <= b THEN a ELSE b

Range(s) == {s[n] : n \in 1..Len(s)}

SeqsUpTo(S, n) == UNION {[1..m -> S] : m \in 0..n}

NoRepeat(s) == \A a, b \in 1..Len(s) : a # b => s[a] # s[b]

\* targets.slice(0, n)
Slice(s, n) == SubSeq(s, 1, Min(Len(s), n))

\* ------------------------------------------------- WorkerLogic (pure part)
classifyError(errorCode) ==
  IF errorCode \in definitiveErrors THEN "definitive"
  ELSE IF errorCode \in temporaryErrors THEN "temporary"
  ELSE "temporary"

\* mutant: an allowance of zero is taken for an allowance
noWeeklyAllowance_OnlyNegative(weeklySlots) == weeklySlots < 0

\* weeklySlots <= 0
noWeeklyAllowance(weeklySlots) == weeklySlots <= 0

\* mutant: the batch is not cut to the weekly allowance
maxSendableOf_Requested(requestedCount, weeklySlots) == requestedCount

\* mutant: the whole weekly allowance is planned
maxSendableOf_Weekly(requestedCount, weeklySlots) == weeklySlots

\* Math.min(requestedCount, weeklySlots)
maxSendableOf(requestedCount, weeklySlots) == Min(requestedCount, weeklySlots)

\* mutant: a batch that fills the list exactly to the ceiling does not fit
fitsCeiling_Strict(slotsAfterSending) == slotsAfterSending < MAX_OVERALL_SLOTS

\* slotsAfterSending <= MAX_OVERALL_SLOTS
fitsCeiling(slotsAfterSending) == slotsAfterSending <= MAX_OVERALL_SLOTS

\* mutant: the cleanup frees down to the ceiling, not to the ceiling less the batch
cleanupNeededFor_NoBatch(overallSlots, maxSendable) == overallSlots - MAX_OVERALL_SLOTS

\* overallSlots - targetSlotsBeforeInvites
cleanupNeededFor(overallSlots, maxSendable) ==
  overallSlots - (MAX_OVERALL_SLOTS - maxSendable)

calculateAccountCapacity(weekly, overallSlots, requestedCount) ==
  LET weeklySlots == IF weekly = Null THEN 0 ELSE weekly
      maxSendable == maxSendableOf(requestedCount, weeklySlots)
      slotsAfterSending == overallSlots + maxSendable
  IN  IF noWeeklyAllowance(weeklySlots)
      THEN [can_send |-> FALSE, max_sendable |-> 0, needs_cleanup |-> FALSE,
            cleanup_needed |-> 0, weekly_limited |-> TRUE, overall_limited |-> FALSE]
      ELSE IF overallSlots = Null
      THEN [can_send |-> TRUE, max_sendable |-> maxSendable, needs_cleanup |-> FALSE,
            cleanup_needed |-> 0, weekly_limited |-> FALSE, overall_limited |-> FALSE]
      ELSE IF fitsCeiling(slotsAfterSending)
      THEN [can_send |-> TRUE, max_sendable |-> maxSendable, needs_cleanup |-> FALSE,
            cleanup_needed |-> 0, weekly_limited |-> weeklySlots < requestedCount,
            overall_limited |-> FALSE]
      ELSE [can_send |-> TRUE, max_sendable |-> maxSendable, needs_cleanup |-> TRUE,
            cleanup_needed |-> cleanupNeededFor(overallSlots, maxSendable),
            weekly_limited |-> weeklySlots < requestedCount,
            overall_limited |-> TRUE]

\* --------------------------------------------- SteamConnector (pure part)
\* mutant: the map of the earlier revision, code 84 as a definitive error
errorMap_Code84Definitive(eresult) ==
  CASE eresult = 14 -> [type |-> "definitive", limitReached |-> FALSE]
    [] eresult = 15 -> [type |-> "temporary", limitReached |-> FALSE]
    [] eresult = 17 -> [type |-> "definitive", limitReached |-> FALSE]
    [] eresult = 25 -> [type |-> "temporary", limitReached |-> TRUE]
    [] eresult = 29 -> [type |-> "temporary", limitReached |-> FALSE]
    [] eresult = 40 -> [type |-> "definitive", limitReached |-> FALSE]
    [] eresult = 84 -> [type |-> "definitive", limitReached |-> FALSE]
    [] OTHER -> [type |-> "temporary", limitReached |-> FALSE]

\* mutant: the rate-limit code 15 is also reported as a limit reached
errorMap_RateLimitIsLimit(eresult) ==
  CASE eresult = 14 -> [type |-> "definitive", limitReached |-> FALSE]
    [] eresult = 15 -> [type |-> "temporary", limitReached |-> TRUE]
    [] eresult = 17 -> [type |-> "definitive", limitReached |-> FALSE]
    [] eresult = 25 -> [type |-> "temporary", limitReached |-> TRUE]
    [] eresult = 29 -> [type |-> "temporary", limitReached |-> FALSE]
    [] eresult = 40 -> [type |-> "definitive", limitReached |-> FALSE]
    [] eresult = 84 -> [type |-> "temporary", limitReached |-> TRUE]
    [] OTHER -> [type |-> "temporary", limitReached |-> FALSE]

errorMap(eresult) ==
  CASE eresult = 14 -> [type |-> "definitive", limitReached |-> FALSE]
    [] eresult = 15 -> [type |-> "temporary", limitReached |-> FALSE]
    [] eresult = 17 -> [type |-> "definitive", limitReached |-> FALSE]
    [] eresult = 25 -> [type |-> "temporary", limitReached |-> TRUE]
    [] eresult = 29 -> [type |-> "temporary", limitReached |-> FALSE]
    [] eresult = 40 -> [type |-> "definitive", limitReached |-> FALSE]
    [] eresult = 84 -> [type |-> "temporary", limitReached |-> TRUE]
    [] OTHER -> [type |-> "temporary", limitReached |-> FALSE]

\* errEresult is err.eresult, Null when the error carries none (|| 0)
mapSteamErrorToResult(errEresult) ==
  LET eresult == IF errEresult = Null THEN 0 ELSE errEresult
  IN  [success |-> FALSE, eresult |-> eresult, errorType |-> errorMap(eresult).type,
       limitReached |-> errorMap(eresult).limitReached]

relationshipType(relationship) ==
  CASE relationship = 3 -> "friend"
    [] relationship \in {4, 2} -> "invite_sent"
    [] relationship = 1 -> "invite_received"
    [] OTHER -> "unknown"

\* ids of the entries of a relationship list with a given type, in list order
IdsOfType(friends, type) ==
  LET F[n \in 0..Len(friends)] ==
        IF n = 0 THEN <<>>
        ELSE IF relationshipType(friends[n].relationship) = type
             THEN Append(F[n - 1], friends[n].steamId)
             ELSE F[n - 1]
  IN  F[Len(friends)]

\* mutant: the list is read without the check of the session
getFriendsList_NoSessionCheck(hasClient, hasSteamID, friends, extra) ==
  [success |-> TRUE, totalFriends |-> Len(friends) + extra,
   confirmedFriends |-> IdsOfType(friends, "friend"),
   pendingInvites |-> IdsOfType(friends, "invite_sent"),
   receivedInvites |-> IdsOfType(friends, "invite_received")]

\* getFriendsList on a client that may have lost its session; extra counts
\* the confirmed friends of the account that are outside Peers
getFriendsList(hasClient, hasSteamID, friends, extra) ==
  IF ~hasClient \/ ~hasSteamID
  THEN [success |-> FALSE, totalFriends |-> 0, confirmedFriends |-> <<>>,
        pendingInvites |-> <<>>, receivedInvites |-> <<>>]
  ELSE [success |-> TRUE, totalFriends |-> Len(friends) + extra,
        confirmedFriends |-> IdsOfType(friends, "friend"),
        pendingInvites |-> IdsOfType(friends, "invite_sent"),
        receivedInvites |-> IdsOfType(friends, "invite_received")]

\* mutant: the confirmed friends are not looked at
verifyInviteStatus_NoFriendCheck(steamId, friendsList) ==
  IF ~friendsList.success
  THEN [inviteSent |-> FALSE, alreadyFriends |-> FALSE, canVerify |-> FALSE]
  ELSE [inviteSent |-> steamId \in Range(friendsList.pendingInvites),
        alreadyFriends |-> FALSE,
        canVerify |-> TRUE]

verifyInviteStatus(steamId, friendsList) ==
  IF ~friendsList.success
  THEN [inviteSent |-> FALSE, alreadyFriends |-> FALSE, canVerify |-> FALSE]
  ELSE [inviteSent |-> steamId \in Range(friendsList.pendingInvites),
        alreadyFriends |-> steamId \in Range(friendsList.confirmedFriends),
        canVerify |-> TRUE]

\* mutant: a timeout is a failure whatever the verification says
timeoutResult_NoVerification(v) ==
  [success |-> FALSE, eresult |-> ERESULT_TIMEOUT, errorType |-> "temporary",
   limitReached |-> FALSE]

\* the outcome addFriend resolves with once its 30 s timer has fired
timeoutResult(v) ==
  IF ~v.canVerify
  THEN [success |-> FALSE, eresult |-> ERESULT_TIMEOUT, errorType |-> "temporary",
        limitReached |-> FALSE]
  ELSE IF v.inviteSent
  THEN [success |-> TRUE, eresult |-> ERESULT_OK, errorType |-> "none",
        limitReached |-> FALSE]
  ELSE IF v.alreadyFriends
  THEN [success |-> FALSE, eresult |-> ERESULT_ALREADY_FRIENDS, errorType |-> "definitive",
        limitReached |-> FALSE]
  ELSE [success |-> FALSE, eresult |-> ERESULT_TIMEOUT, errorType |-> "temporary",
        limitReached |-> FALSE]

\* ------------------------------------------- SteamInviteCleaner (pure part)
RemoveId(s, id) ==
  LET F[n \in 0..Len(s)] ==
        IF n = 0 THEN <<>>
        ELSE IF s[n] = id THEN F[n - 1] ELSE Append(F[n - 1], s[n])
  IN  F[Len(s)]

\* new Set(ids) keeps the first occurrence of every id, in insertion order
Dedup(s) ==
  LET F[n \in 0..Len(s)] ==
        IF n = 0 THEN <<>>
        ELSE IF s[n] \in Range(F[n - 1]) THEN F[n - 1] ELSE Append(F[n - 1], s[n])
  IN  F[Len(s)]

\* mutant: a selected id stays in pendingSteamIds
hintedPass_NoDelete(pendingSet, slotsNeeded, oldestPendingInvites) ==
  LET F[n \in 0..Len(oldestPendingInvites)] ==
        IF n = 0 THEN [sel |-> <<>>, rest |-> pendingSet]
        ELSE LET st == F[n - 1]
                 id == oldestPendingInvites[n]
             IN  IF Len(st.sel) >= slotsNeeded THEN st
                 ELSE IF id \in Range(st.rest)
                      THEN [sel |-> Append(st.sel, id), rest |-> st.rest]
                      ELSE st
  IN  F[Len(oldestPendingInvites)]

\* Priority 1 loop: st.sel is toCancel, st.rest is pendingSteamIds
hintedPass(pendingSet, slotsNeeded, oldestPendingInvites) ==
  LET F[n \in 0..Len(oldestPendingInvites)] ==
        IF n = 0 THEN [sel |-> <<>>, rest |-> pendingSet]
        ELSE LET st == F[n - 1]
                 id == oldestPendingInvites[n]
             IN  IF Len(st.sel) >= slotsNeeded THEN st
                 ELSE IF id \in Range(st.rest)
                      THEN [sel |-> Append(st.sel, id), rest |-> RemoveId(st.rest, id)]
                      ELSE st
  IN  F[Len(oldestPendingInvites)]

selectInvitesToCancel(pendingInvites, slotsNeeded, oldestPendingInvites) ==
  IF Len(pendingInvites) = 0 THEN <<>>
  ELSE LET p1 == hintedPass(Dedup(pendingInvites), slotsNeeded, oldestPendingInvites)
       IN  IF Len(p1.sel) < slotsNeeded
           THEN p1.sel \o Slice(p1.rest, slotsNeeded - Len(p1.sel))
           ELSE p1.sel

\* ------------------------------------------------------------------ state
VARIABLES
  mode,             \* "processInvites": the server's call; "direct": the send loop
                    \* called on a worker whose connector never connected
  params,           \* the request: account, targets, options
  client,           \* SteamConnector.client is set
  isConnected,      \* SteamConnector.isConnected
  clientSteamID,    \* client.steamID is set (the session is logged on)
  myFriends,        \* client.myFriends, in insertion order
  extraFriends,     \* confirmed friends of the account outside Peers
  pc,               \* position of processInvites / the send loop
  result,           \* processInvites' result object
  updatedAccount,   \* updatedAccount.overall_friend_slots
  targetsToProcess, \* the truncated target list
  results,          \* sendInvitesWithEarlyDetection's results object
  i,                \* loop index of the send loop (0-based)
  dispatch,         \* "idle" | "running" | "returned": sendInvitesWithEarlyDetection
  callbacks,        \* request indices whose client callback is still to come
  verification,     \* the verification made by the latest timer callback, if any
  cleaner,          \* cleanupOldInvites' locals
  removals,         \* removeFriend calls the service has not applied yet
  requestsIssued,   \* indices handed to client.addFriend, in order
  delaysAfter,      \* indices after whose attempt wait(delayMs) was started
  cancelsIssued     \* ids handed to cancelFriendInviteSimple, in order

vars == <<mode, params, client, isConnected, clientSteamID, myFriends, extraFriends,
          pc, result, updatedAccount, targetsToProcess, results, i, dispatch,
          callbacks, verification, cleaner, removals, requestsIssued, delaysAfter,
          cancelsIssued>>

connVars == <<client, isConnected, clientSteamID>>
envVars == <<myFriends, extraFriends, removals>>
loopVars == <<results, i, dispatch, callbacks, verification, requestsIssued, delaysAfter>>
cleanVars == <<cleaner, cancelsIssued>>

emptyResults ==
  [successful |-> <<>>, failed |-> <<>>, temporaryFailures |-> <<>>,
   limitReached |-> FALSE, invitationErrorCount |-> 0, accountBanned |-> FALSE]

noVerification ==
  [idx |-> Null, inviteSent |-> FALSE, alreadyFriends |-> FALSE, canVerify |-> FALSE]

emptyCleaner ==
  [slotsToFree |-> 0, toCancel |-> <<>>, j |-> 1, successful_cancellations |-> 0,
   canceled_steam_ids |-> <<>>, failed_steam_ids |-> <<>>, before_total |-> 0]

initialResult(account) ==
  [success |-> FALSE, error |-> FALSE, results |-> emptyResults,
   account_updates |-> [slots_used |-> 0,
                        new_overall_slots |-> account.overall_friend_slots,
                        cleanup_performed |-> FALSE, slots_freed |-> 0,
                        initialization_performed |-> FALSE],
   cooldown_info |-> [should_apply |-> FALSE, error_codes |-> {}, reason |-> "null"]]

\* ------------------------------------------------------------------ inputs
FriendEntries == [steamId : Peers, relationship : {REL_FRIEND, REL_INVITE_SENT}]

FriendLists ==
  {f \in SeqsUpTo(FriendEntries, MaxFriendEntries) :
     \A a, b \in 1..Len(f) : a # b => f[a].steamId # f[b].steamId}

\* target lists up to renaming of the peers: a peer appears for the first
\* time only after every peer before it in PeerOrder has appeared
FirstUseOrdered(s) ==
  \A n \in 1..Len(s) : \A m \in 1..Len(PeerOrder) :
     (s[n] = PeerOrder[m]) =>
        \A l \in 1..(m - 1) : \E k \in 1..(n - 1) : s[k] = PeerOrder[l]

TargetLists == {s \in SeqsUpTo(Peers, MaxTargets) : Len(s) > 0 /\ FirstUseOrdered(s)}

\* requests whose account has allowance for every target and a friend list
\* far from the ceiling (also the inputs of a direct call of the send loop)
SendLoopRequests ==
  [account : [weekly_invite_slots : {MaxTargets}, overall_friend_slots : {Null}],
   targets : TargetLists,
   oldest_pending_invites : {<<>>},
   max_invites_per_batch : {MaxPerBatch}]

\* requests that exercise the capacity plan and the cleanup
CapacityRequests ==
  [account : {a \in [weekly_invite_slots : {Null, 0, 1},
                      overall_friend_slots : {Null, 0, MAX_OVERALL_SLOTS}] :
                 /\ a.weekly_invite_slots > 0 => a.overall_friend_slots = 0
                 /\ a.overall_friend_slots > 0 => a.weekly_invite_slots = 0},
   targets : {s \in TargetLists : NoRepeat(s)},
   oldest_pending_invites : SeqsUpTo(Peers, MaxHint),
   max_invites_per_batch : {MaxPerBatch}]

Init ==
  /\ \/ /\ mode = "direct"
        /\ params \in SendLoopRequests
        /\ myFriends = <<>>
        /\ extraFriends = 0
     \/ /\ mode = "processInvites"
        /\ params \in SendLoopRequests
        /\ myFriends \in {f \in FriendLists : Len(f) <= 1}
        /\ extraFriends = 0
     \/ /\ mode = "processInvites"
        /\ params \in CapacityRequests
        /\ myFriends \in FriendLists
        /\ extraFriends \in {0, MAX_OVERALL_SLOTS - 1, MAX_OVERALL_SLOTS}
  /\ client = FALSE
  /\ isConnected = FALSE
  /\ clientSteamID = FALSE
  /\ pc = IF mode = "direct" THEN "send_issue" ELSE "start"
  /\ result = initialResult(params.account)
  /\ updatedAccount = params.account.overall_friend_slots
  /\ targetsToProcess = IF mode = "direct" THEN params.targets ELSE <<>>
  /\ results = emptyResults
  /\ i = 0
  /\ dispatch = IF mode = "direct" THEN "running" ELSE "idle"
  /\ callbacks = {}
  /\ verification = noVerification
  /\ cleaner = emptyCleaner
  /\ removals = {}
  /\ requestsIssued = <<>>
  /\ delaysAfter = <<>>
  /\ cancelsIssued = <<>>

\* ------------------------------------------------- the send loop's handlers
\* mutant: the flush starts at the current target, j = i
remainingTargets_FromCurrent(tgts, idx) == SubSeq(tgts, idx + 1, Len(tgts))

\* targets[j].slug for j = i + 1 .. targets.length - 1 (i is 0-based)
remainingTargets(tgts, idx) == SubSeq(tgts, idx + 2, Len(tgts))

\* the body of the try block once addFriend has resolved with inviteResult
handleInviteResult(rs, tgts, idx, inviteResult) ==
  LET slug == tgts[idx + 1]
      errorCode == inviteResult.eresult
      failedRs == [rs EXCEPT
                     !.failed = Append(@, [steamId |-> slug, errorCode |-> errorCode,
                                           errorType |-> classifyError(errorCode)]),
                     !.limitReached = @ \/ errorCode \in accountLimitErrors
                                        \/ inviteResult.limitReached]
      flushed(r) == [r EXCEPT !.temporaryFailures = @ \o remainingTargets(tgts, idx)]
  IN  IF inviteResult.success
      THEN [rs |-> [rs EXCEPT !.successful = Append(@, slug)], stop |-> FALSE]
      ELSE IF errorCode \in workerCooldownErrors
      THEN [rs |-> flushed([failedRs EXCEPT !.invitationErrorCount = @ + 1]),
            stop |-> TRUE]
      ELSE IF errorCode \in accountLimitErrors
      THEN [rs |-> flushed(failedRs), stop |-> TRUE]
      ELSE IF errorCode \in accountBannedErrors
      THEN [rs |-> flushed([failedRs EXCEPT !.accountBanned = TRUE]), stop |-> TRUE]
      ELSE [rs |-> failedRs, stop |-> FALSE]

\* mutant: an exception ends the loop
handleException_Aborts(rs, tgts, idx) ==
  [rs |-> [rs EXCEPT !.failed = Append(@, [steamId |-> tgts[idx + 1], errorCode |-> Null,
                                          errorType |-> "temporary"])],
   stop |-> TRUE]

\* the catch block of the loop body
handleException(rs, tgts, idx) ==
  [rs |-> [rs EXCEPT !.failed = Append(@, [steamId |-> tgts[idx + 1], errorCode |-> Null,
                                          errorType |-> "temporary"])],
   stop |-> FALSE]

extractErrorCodes(failedResults) ==
  {failedResults[n].errorCode : n \in 1..Len(failedResults)} \ {Null}

\* mutant: the batch is not marked successful once the send loop returned
dispatchResult_NoSuccess(res, overall, inviteResults) ==
  [res EXCEPT
     !.results = inviteResults,
     !.account_updates.slots_used = Len(inviteResults.successful),
     !.account_updates.new_overall_slots = overall + Len(inviteResults.successful),
     !.cooldown_info =
        IF inviteResults.invitationErrorCount > 0
        THEN [should_apply |-> TRUE,
              error_codes |-> extractErrorCodes(inviteResults.failed),
              reason |-> "invitation_errors"]
        ELSE @]

\* mutant: the advisory is also set when the account limit was reached
dispatchResult_AnyLimit(res, overall, inviteResults) ==
  [res EXCEPT
     !.results = inviteResults,
     !.success = TRUE,
     !.account_updates.slots_used = Len(inviteResults.successful),
     !.account_updates.new_overall_slots = overall + Len(inviteResults.successful),
     !.cooldown_info =
        IF inviteResults.invitationErrorCount > 0 \/ inviteResults.limitReached
        THEN [should_apply |-> TRUE,
              error_codes |-> extractErrorCodes(inviteResults.failed),
              reason |-> "invitation_errors"]
        ELSE @]

\* processInvites steps 6 and 7, run when the send loop has returned
\* mutant: the successful sends are not added to the overall count
dispatchResult_NoSlotsUsed(res, overall, inviteResults) ==
  [res EXCEPT
     !.results = inviteResults,
     !.success = TRUE,
     !.account_updates.slots_used = Len(inviteResults.successful),
     !.account_updates.new_overall_slots = overall,
     !.cooldown_info =
        IF inviteResults.invitationErrorCount > 0
        THEN [should_apply |-> TRUE,
              error_codes |-> extractErrorCodes(inviteResults.failed),
              reason |-> "invitation_errors"]
        ELSE @]

dispatchResult(res, overall, inviteResults) ==
  [res EXCEPT
     !.results = inviteResults,
     !.success = TRUE,
     !.account_updates.slots_used = Len(inviteResults.successful),
     !.account_updates.new_overall_slots = overall + Len(inviteResults.successful),
     !.cooldown_info =
        IF inviteResults.invitationErrorCount > 0
        THEN [should_apply |-> TRUE,
              error_codes |-> extractErrorCodes(inviteResults.failed),
              reason |-> "invitation_errors"]
        ELSE @]

\* mutant: the delay is started before the stop is looked at
AfterAttempt_DelayThenStop(h) ==
  /\ results' = h.rs
  /\ IF ~h.stop /\ i < Len(targetsToProcess) - 1
     THEN /\ pc' = "send_delay"
          /\ delaysAfter' = Append(delaysAfter, i)
          /\ UNCHANGED <<dispatch, result>>
     ELSE /\ dispatch' = "returned"
          /\ delaysAfter' = IF i < Len(targetsToProcess) - 1
                            THEN Append(delaysAfter, i) ELSE delaysAfter
          /\ IF mode = "processInvites"
             THEN /\ pc' = "finally"
                  /\ result' = dispatchResult(result, updatedAccount, h.rs)
             ELSE /\ pc' = "done"
                  /\ result' = result

\* mutant: the delay is also waited after the last target
AfterAttempt_DelayAfterLast(h) ==
  /\ results' = h.rs
  /\ IF ~h.stop /\ i < Len(targetsToProcess) - 1
     THEN /\ pc' = "send_delay"
          /\ delaysAfter' = Append(delaysAfter, i)
          /\ UNCHANGED <<dispatch, result>>
     ELSE /\ dispatch' = "returned"
          /\ delaysAfter' = IF ~h.stop THEN Append(delaysAfter, i) ELSE delaysAfter
          /\ IF mode = "processInvites"
             THEN /\ pc' = "finally"
                  /\ result' = dispatchResult(result, updatedAccount, h.rs)
             ELSE /\ pc' = "done"
                  /\ result' = result

\* what follows one loop body: break and return, the delay, or the return
\* after the last target
AfterAttempt(h) ==
  /\ results' = h.rs
  /\ IF ~h.stop /\ i < Len(targetsToProcess) - 1
     THEN /\ pc' = "send_delay"
          /\ delaysAfter' = Append(delaysAfter, i)
          /\ UNCHANGED <<dispatch, result>>
     ELSE /\ dispatch' = "returned"
          /\ delaysAfter' = delaysAfter
          /\ IF mode = "processInvites"
             THEN /\ pc' = "finally"
                  /\ result' = dispatchResult(result, updatedAccount, h.rs)
             ELSE /\ pc' = "done"
                  /\ result' = result

\* the closure variable timeoutOccurred of request k, for a request whose
\* callback is still to come: its timer has fired unless it is the request
\* the loop is waiting for with the timer armed
timeoutOccurred(k) == ~(k = i /\ pc = "send_pending")

\* mutant: addFriend hands the request to the client without looking at
\* the connection
IssueRequest_NoConnectionCheck ==
  /\ pc = "send_issue"
  /\ pc' = "send_pending"
  /\ callbacks' = callbacks \cup {i}
  /\ requestsIssued' = Append(requestsIssued, i)
  /\ UNCHANGED <<results, dispatch, delaysAfter, result>>
  /\ UNCHANGED <<mode, params, connVars, envVars, updatedAccount, targetsToProcess,
                 i, cleanVars, verification>>

\* addFriend(target.slug): not connected, or the request goes to the client
\* and the 30 s timer is armed
IssueRequest ==
  /\ pc = "send_issue"
  /\ IF ~isConnected \/ ~client
     THEN /\ AfterAttempt(handleInviteResult(results, targetsToProcess, i,
               [success |-> FALSE, eresult |-> Null, limitReached |-> FALSE]))
          /\ UNCHANGED <<callbacks, requestsIssued>>
     ELSE /\ pc' = "send_pending"
          /\ callbacks' = callbacks \cup {i}
          /\ requestsIssued' = Append(requestsIssued, i)
          /\ UNCHANGED <<results, dispatch, delaysAfter, result>>
  /\ UNCHANGED <<mode, params, connVars, envVars, updatedAccount, targetsToProcess,
                 i, cleanVars, verification>>

\* the awaited addFriend call rejects: the loop's catch block
RequestThrows ==
  /\ pc = "send_issue"
  /\ AfterAttempt(handleException(results, targetsToProcess, i))
  /\ UNCHANGED <<mode, params, connVars, envVars, updatedAccount, targetsToProcess,
                 i, callbacks, requestsIssued, cleanVars, verification>>

\* the service records the invite: the peer becomes invite_sent in myFriends
withInviteSent(friends, peer) ==
  IF \E n \in 1..Len(friends) : friends[n].steamId = peer
  THEN friends
  ELSE Append(friends, [steamId |-> peer, relationship |-> REL_INVITE_SENT])

\* the client calls back before the timer fired, without error
CallbackSuccess ==
  /\ pc = "send_pending"
  /\ i \in callbacks
  /\ ~timeoutOccurred(i)
  /\ callbacks' = callbacks \ {i}
  /\ myFriends' = withInviteSent(myFriends, targetsToProcess[i + 1])
  /\ AfterAttempt(handleInviteResult(results, targetsToProcess, i,
        [success |-> TRUE, eresult |-> ERESULT_OK, limitReached |-> FALSE]))
  /\ UNCHANGED <<mode, params, connVars, extraFriends, removals, updatedAccount,
                 targetsToProcess, i, requestsIssued, cleanVars, verification>>

\* the client calls back before the timer fired, with an error
CallbackError ==
  /\ pc = "send_pending"
  /\ i \in callbacks
  /\ ~timeoutOccurred(i)
  /\ callbacks' = callbacks \ {i}
  /\ \E eresult \in ClientErrorCodes :
        AfterAttempt(handleInviteResult(results, targetsToProcess, i,
                                        mapSteamErrorToResult(eresult)))
  /\ UNCHANGED <<mode, params, connVars, envVars, updatedAccount,
                 targetsToProcess, i, requestsIssued, cleanVars, verification>>

\* mutant: a callback that arrives after the timer is still processed
LateCallback_Processed ==
  /\ pc # "done"
  /\ \E k \in callbacks :
        /\ timeoutOccurred(k)
        /\ callbacks' = callbacks \ {k}
        /\ results' = [results EXCEPT !.successful = Append(@, targetsToProcess[k + 1])]
  /\ UNCHANGED <<mode, params, connVars, envVars, pc, result, updatedAccount,
                 targetsToProcess, i, dispatch,
                 requestsIssued, delaysAfter, cleanVars, verification>>

\* a callback that arrives once its request's timer has fired is ignored
LateCallback ==
  /\ pc # "done"
  /\ \E k \in callbacks : timeoutOccurred(k) /\ callbacks' = callbacks \ {k}
  /\ UNCHANGED <<mode, params, connVars, envVars, pc, result, updatedAccount,
                 targetsToProcess, results, i, dispatch,
                 requestsIssued, delaysAfter, cleanVars, verification>>

\* mutant: the request has no deadline
TimerFires_Never == FALSE /\ UNCHANGED vars

\* mutant: on the timer the loop goes on without an outcome for the target
TimerFires_SkipsOutcome ==
  /\ pc = "send_pending"
  /\ pc' = IF i < Len(targetsToProcess) - 1 THEN "send_delay" ELSE "send_grace"
  /\ UNCHANGED <<mode, params, connVars, envVars, result, updatedAccount,
                 targetsToProcess, results, i, dispatch, callbacks,
                 requestsIssued, delaysAfter, cleanVars, verification>>

\* the 30 s timer of the request fires: timeoutOccurred = true, wait(2000) starts
TimerFires ==
  /\ pc = "send_pending"
  /\ pc' = "send_grace"
  /\ UNCHANGED <<mode, params, connVars, envVars, result, updatedAccount,
                 targetsToProcess, results, i, dispatch, callbacks,
                 requestsIssued, delaysAfter, cleanVars, verification>>

\* the verification the timer callback makes of the current relationship list
currentVerification ==
  verifyInviteStatus(targetsToProcess[i + 1],
                     getFriendsList(client, clientSteamID, myFriends, extraFriends))

\* the grace wait is over: verifyInviteStatus, then the request resolves
GraceElapsed ==
  /\ pc = "send_grace"
  /\ verification' = [idx |-> i, inviteSent |-> currentVerification.inviteSent,
                      alreadyFriends |-> currentVerification.alreadyFriends,
                      canVerify |-> currentVerification.canVerify]
  /\ AfterAttempt(handleInviteResult(results, targetsToProcess, i,
                                     timeoutResult(currentVerification)))
  /\ UNCHANGED <<mode, params, connVars, envVars, updatedAccount, targetsToProcess,
                 i, callbacks, requestsIssued, cleanVars>>

\* mutant: after the first delay the loop tries the same target again
DelayElapsed_RetriesOnce ==
  /\ pc = "send_delay"
  /\ i' = IF Len(delaysAfter) = 1 THEN i ELSE i + 1
  /\ pc' = "send_issue"
  /\ UNCHANGED <<mode, params, connVars, envVars, result, updatedAccount,
                 targetsToProcess, results, dispatch, callbacks,
                 requestsIssued, delaysAfter, cleanVars, verification>>

\* wait(delayMs) is over: the loop goes to the next target
DelayElapsed ==
  /\ pc = "send_delay"
  /\ i' = i + 1
  /\ pc' = "send_issue"
  /\ UNCHANGED <<mode, params, connVars, envVars, result, updatedAccount,
                 targetsToProcess, results, dispatch, callbacks,
                 requestsIssued, delaysAfter, cleanVars, verification>>

\* ------------------------------------------------------------ processInvites
\* connect(): the client is created and logOn is called
ConnectStart ==
  /\ pc = "start"
  /\ client' = TRUE
  /\ pc' = "connecting"
  /\ UNCHANGED <<mode, params, isConnected, clientSteamID, envVars, result,
                 updatedAccount, targetsToProcess, loopVars, cleanVars>>

\* waitForConnection: the loggedOn event arrives first
ConnectLoggedOn ==
  /\ pc = "connecting"
  /\ clientSteamID' = TRUE
  /\ isConnected' = TRUE
  /\ pc' = "stats"
  /\ UNCHANGED <<mode, params, client, envVars, result, updatedAccount,
                 targetsToProcess, loopVars, cleanVars>>

\* mutant: the failure to connect carries no advisory
connectionFailure_NoAdvisory(res) ==
  [res EXCEPT !.cooldown_info = [should_apply |-> FALSE, error_codes |-> {},
                                 reason |-> "connection_failure"]]

connectionFailure(res) ==
  [res EXCEPT !.cooldown_info = [should_apply |-> TRUE, error_codes |-> {},
                                 reason |-> "connection_failure"]]

\* waitForConnection: the error event arrives first
ConnectError ==
  /\ pc = "connecting"
  /\ result' = connectionFailure(result)
  /\ pc' = "finally"
  /\ UNCHANGED <<mode, params, connVars, envVars, updatedAccount,
                 targetsToProcess, loopVars, cleanVars>>

\* waitForConnection: the 30 s connection timer fires first
ConnectTimeout ==
  /\ pc = "connecting"
  /\ result' = connectionFailure(result)
  /\ pc' = "finally"
  /\ UNCHANGED <<mode, params, connVars, envVars, updatedAccount,
                 targetsToProcess, loopVars, cleanVars>>

\* mutant: the send loop gets the whole target list
BeginDispatch_NoTruncate(overall) ==
  /\ targetsToProcess' = params.targets
  /\ results' = emptyResults
  /\ i' = 0
  /\ pc' = "send_issue"
  /\ dispatch' = "running"

\* the recalculation of the capacity and the call of the send loop (the
\* server rejects an empty target list and can_send implies an allowance of
\* at least one, so the truncated list is never empty)
BeginDispatch(overall) ==
  LET finalCapacity == calculateAccountCapacity(params.account.weekly_invite_slots,
                                                overall, Len(params.targets))
      actualBatchSize == Min(Len(params.targets), finalCapacity.max_sendable)
  IN  /\ targetsToProcess' = Slice(params.targets, actualBatchSize)
      /\ results' = emptyResults
      /\ i' = 0
      /\ pc' = "send_issue"
      /\ dispatch' = "running"

\* mutant: the capacity is planned from the overall count passed in
RefreshStats_PlansFromPassedIn ==
  /\ pc = "stats"
  /\ LET friendsList == getFriendsList(client, clientSteamID, myFriends, extraFriends)
         totalSlots == friendsList.totalFriends
         capacity == calculateAccountCapacity(params.account.weekly_invite_slots,
                                              updatedAccount, Len(params.targets))
         refreshed == [result EXCEPT
                         !.account_updates.new_overall_slots = totalSlots,
                         !.account_updates.initialization_performed =
                            (updatedAccount = Null)]
     IN  IF ~friendsList.success
         THEN /\ result' = [result EXCEPT !.success = FALSE, !.error = TRUE]
              /\ pc' = "finally"
              /\ UNCHANGED <<updatedAccount, targetsToProcess, results, i, dispatch,
                             cleaner>>
         ELSE /\ updatedAccount' = totalSlots
              /\ IF ~capacity.can_send
                 THEN /\ result' = [refreshed EXCEPT !.results.limitReached = TRUE,
                                                     !.success = TRUE]
                      /\ pc' = "finally"
                      /\ UNCHANGED <<targetsToProcess, results, i, dispatch, cleaner>>
                 ELSE IF capacity.needs_cleanup /\ capacity.cleanup_needed > 0
                 THEN /\ result' = refreshed
                      /\ pc' = "cleanup_list"
                      /\ cleaner' = [emptyCleaner EXCEPT
                                       !.slotsToFree = capacity.cleanup_needed]
                      /\ UNCHANGED <<targetsToProcess, results, i, dispatch>>
                 ELSE /\ result' = refreshed
                      /\ BeginDispatch(totalSlots)
                      /\ UNCHANGED cleaner
  /\ UNCHANGED <<mode, params, connVars, envVars, callbacks, verification,
                 requestsIssued, delaysAfter, cancelsIssued>>

\* steps 2 and 3: getAccountStatistics, then calculateAccountCapacity
RefreshStats ==
  /\ pc = "stats"
  /\ LET friendsList == getFriendsList(client, clientSteamID, myFriends, extraFriends)
         totalSlots == friendsList.totalFriends
         capacity == calculateAccountCapacity(params.account.weekly_invite_slots,
                                              totalSlots, Len(params.targets))
         refreshed == [result EXCEPT
                         !.account_updates.new_overall_slots = totalSlots,
                         !.account_updates.initialization_performed =
                            (updatedAccount = Null)]
     IN  IF ~friendsList.success
         THEN /\ result' = [result EXCEPT !.success = FALSE, !.error = TRUE]
              /\ pc' = "finally"
              /\ UNCHANGED <<updatedAccount, targetsToProcess, results, i, dispatch,
                             cleaner>>
         ELSE /\ updatedAccount' = totalSlots
              /\ IF ~capacity.can_send
                 THEN /\ result' = [refreshed EXCEPT !.results.limitReached = TRUE,
                                                     !.success = TRUE]
                      /\ pc' = "finally"
                      /\ UNCHANGED <<targetsToProcess, results, i, dispatch, cleaner>>
                 ELSE IF capacity.needs_cleanup /\ capacity.cleanup_needed > 0
                 THEN /\ result' = refreshed
                      /\ pc' = "cleanup_list"
                      /\ cleaner' = [emptyCleaner EXCEPT
                                       !.slotsToFree = capacity.cleanup_needed]
                      /\ UNCHANGED <<targetsToProcess, results, i, dispatch>>
                 ELSE /\ result' = refreshed
                      /\ BeginDispatch(totalSlots)
                      /\ UNCHANGED cleaner
  /\ UNCHANGED <<mode, params, connVars, envVars, callbacks, verification,
                 requestsIssued, delaysAfter, cancelsIssued>>

cleanupSucceeded(res, newOverall, slotsFreed) ==
  [res EXCEPT !.account_updates.new_overall_slots = newOverall,
              !.account_updates.cleanup_performed = TRUE,
              !.account_updates.slots_freed = slotsFreed]

\* cleanupOldInvites steps 1 and 2: getFriendsList and selectInvitesToCancel
CleanupList ==
  /\ pc = "cleanup_list"
  /\ LET friendsResult == getFriendsList(client, clientSteamID, myFriends, extraFriends)
         invitesToCancel == selectInvitesToCancel(friendsResult.pendingInvites,
                                                  cleaner.slotsToFree,
                                                  params.oldest_pending_invites)
     IN  IF ~friendsResult.success
         THEN /\ BeginDispatch(updatedAccount)
              /\ UNCHANGED <<result, updatedAccount, cleaner>>
         ELSE IF Len(invitesToCancel) = 0
         THEN /\ result' = cleanupSucceeded(result, friendsResult.totalFriends, 0)
              /\ updatedAccount' = friendsResult.totalFriends
              /\ BeginDispatch(friendsResult.totalFriends)
              /\ UNCHANGED cleaner
         ELSE /\ cleaner' = [cleaner EXCEPT !.toCancel = invitesToCancel,
                                            !.before_total = friendsResult.totalFriends]
              /\ pc' = "cleanup_cancel"
              /\ UNCHANGED <<result, updatedAccount, targetsToProcess, results, i,
                             dispatch>>
  /\ UNCHANGED <<mode, params, connVars, envVars, callbacks, verification,
                 requestsIssued, delaysAfter, cancelsIssued>>

\* mutant: the cleanup goes on without waiting for the cancel loop
cancelLoopDone_Immediately == TRUE

\* for (const steamId of steamIds): every selected id has had its pass
cancelLoopDone == cleaner.j > Len(cleaner.toCancel)

\* mutant: a cancellation that failed is counted as successful
CancelStep_CountsFailure ==
  /\ pc = "cleanup_cancel"
  /\ ~cancelLoopDone
  /\ LET steamId == cleaner.toCancel[cleaner.j]
     IN  /\ cancelsIssued' = Append(cancelsIssued, steamId)
         /\ IF ~client \/ ~clientSteamID
            THEN /\ cleaner' = [cleaner EXCEPT !.j = @ + 1,
                                               !.successful_cancellations = @ + 1,
                                               !.failed_steam_ids = Append(@, steamId)]
                 /\ UNCHANGED removals
            ELSE /\ cleaner' = [cleaner EXCEPT !.j = @ + 1,
                                               !.successful_cancellations = @ + 1,
                                               !.canceled_steam_ids = Append(@, steamId)]
                 /\ removals' = removals \cup {steamId}
  /\ UNCHANGED <<mode, params, connVars, myFriends, extraFriends, pc, result,
                 updatedAccount, targetsToProcess, loopVars>>

\* cancelInvitesOnSteam: one pass of the loop, cancelFriendInviteSimple and wait(500)
CancelStep ==
  /\ pc = "cleanup_cancel"
  /\ ~cancelLoopDone
  /\ LET steamId == cleaner.toCancel[cleaner.j]
     IN  /\ cancelsIssued' = Append(cancelsIssued, steamId)
         /\ IF ~client \/ ~clientSteamID
            THEN /\ cleaner' = [cleaner EXCEPT !.j = @ + 1,
                                               !.failed_steam_ids = Append(@, steamId)]
                 /\ UNCHANGED removals
            ELSE /\ cleaner' = [cleaner EXCEPT !.j = @ + 1,
                                               !.successful_cancellations = @ + 1,
                                               !.canceled_steam_ids = Append(@, steamId)]
                 /\ removals' = removals \cup {steamId}
  /\ UNCHANGED <<mode, params, connVars, myFriends, extraFriends, pc, result,
                 updatedAccount, targetsToProcess, loopVars>>

\* cleanupOldInvites steps 3 and 4 once the cancel loop is over, then the
\* caller's handling of the cleanup result
CleanupFinish ==
  /\ pc = "cleanup_cancel"
  /\ cancelLoopDone
  /\ LET updated == getFriendsList(client, clientSteamID, myFriends, extraFriends)
         newOverallSlots == IF updated.success THEN updated.totalFriends
                            ELSE cleaner.before_total - cleaner.successful_cancellations
     IN  IF cleaner.successful_cancellations = 0
         THEN /\ BeginDispatch(updatedAccount)
              /\ UNCHANGED <<result, updatedAccount>>
         ELSE /\ result' = cleanupSucceeded(result, newOverallSlots,
                                            cleaner.successful_cancellations)
              /\ updatedAccount' = newOverallSlots
              /\ BeginDispatch(newOverallSlots)
  /\ UNCHANGED <<mode, params, connVars, envVars, callbacks, verification,
                 requestsIssued, delaysAfter, cleanVars>>

\* mutant: disconnect() resets the flags and leaves the client in place
Disconnect_LeavesClient ==
  /\ pc = "finally"
  /\ isConnected' = FALSE
  /\ pc' = "done"
  /\ UNCHANGED <<mode, params, client, clientSteamID, envVars, result, updatedAccount,
                 targetsToProcess, loopVars, cleanVars>>

\* the finally block: disconnect(), then the result is delivered
Disconnect ==
  /\ pc = "finally"
  /\ client' = FALSE
  /\ isConnected' = FALSE
  /\ clientSteamID' = FALSE
  /\ pc' = "done"
  /\ UNCHANGED <<mode, params, envVars, result, updatedAccount, targetsToProcess,
                 loopVars, cleanVars>>

\* ------------------------------------------------------------- environment
\* the session is lost: client.steamID becomes null.  Only getFriendsList
\* and cancelFriendInviteSimple read it, so the loss is taken where one of
\* them runs next
SessionDrop ==
  /\ pc \in {"stats", "cleanup_list", "cleanup_cancel", "send_grace"}
  /\ clientSteamID
  /\ clientSteamID' = FALSE
  /\ UNCHANGED <<mode, params, client, isConnected, envVars, pc, result,
                 updatedAccount, targetsToProcess, loopVars, cleanVars>>

\* the service has recorded the invite of the request whose answer did not
\* come in time, before the relationship list is read again
EnvInviteApplied ==
  /\ pc = "send_grace"
  /\ withInviteSent(myFriends, targetsToProcess[i + 1]) # myFriends
  /\ myFriends' = withInviteSent(myFriends, targetsToProcess[i + 1])
  /\ UNCHANGED <<mode, params, connVars, extraFriends, removals, pc, result,
                 updatedAccount, targetsToProcess, loopVars, cleanVars>>

withoutEntry(friends, peer) ==
  LET F[n \in 0..Len(friends)] ==
        IF n = 0 THEN <<>>
        ELSE IF friends[n].steamId = peer THEN F[n - 1]
             ELSE Append(F[n - 1], friends[n])
  IN  F[Len(friends)]

\* the service has applied a removeFriend call
EnvRemovalApplied ==
  /\ pc # "done"
  /\ \E p \in removals :
        /\ myFriends' = withoutEntry(myFriends, p)
        /\ removals' = removals \ {p}
  /\ UNCHANGED <<mode, params, connVars, extraFriends, pc, result,
                 updatedAccount, targetsToProcess, loopVars, cleanVars>>

Next ==
  \/ ConnectStart
  \/ ConnectLoggedOn
  \/ ConnectError
  \/ ConnectTimeout
  \/ RefreshStats
  \/ CleanupList
  \/ CancelStep
  \/ CleanupFinish
  \/ IssueRequest
  \/ RequestThrows
  \/ CallbackSuccess
  \/ CallbackError
  \/ LateCallback
  \/ TimerFires
  \/ GraceElapsed
  \/ DelayElapsed
  \/ Disconnect
  \/ SessionDrop
  \/ EnvInviteApplied
  \/ EnvRemovalApplied

Spec == Init /\ [][Next]_vars

\* the program's steps and timers; the client's events and the service's
\* changes of the relationship list carry no fairness
ProgramStep ==
  \/ ConnectStart
  \/ ConnectTimeout
  \/ RefreshStats
  \/ CleanupList
  \/ CancelStep
  \/ CleanupFinish
  \/ IssueRequest
  \/ TimerFires
  \/ GraceElapsed
  \/ DelayElapsed
  \/ Disconnect

LiveSpec == Init /\ [][Next]_vars /\ WF_vars(ProgramStep)

\* ------------------------------------- calculateAccountCapacity on its own
\* the worker's other state while one of its pure methods is called
atRest ==
  /\ client = FALSE /\ isConnected = FALSE /\ clientSteamID = FALSE
  /\ myFriends = <<>> /\ extraFriends = 0 /\ removals = {}
  /\ updatedAccount = Null /\ targetsToProcess = <<>>
  /\ results = emptyResults /\ i = 0 /\ dispatch = "idle" /\ callbacks = {}
  /\ verification = noVerification /\ requestsIssued = <<>> /\ delaysAfter = <<>>
  /\ cleaner = emptyCleaner /\ cancelsIssued = <<>>

\* account.weekly_invite_slots: missing, negative, around the requested
\* counts, and the allowance of a full week
PlanWeekly == {Null, -2, 30} \cup 0..(MaxTargets + 1)

\* account.overall_friend_slots: never measured, nearly empty, and around the
\* ceiling by as much as a batch
PlanOverall ==
  {Null, 0, 1, 240}
    \cup (MAX_OVERALL_SLOTS - MaxTargets - 1)..(MAX_OVERALL_SLOTS + MaxTargets + 1)

\* requestedCount is targets.length
PlanRequested == {20} \cup 0..MaxTargets

PlanInit ==
  /\ mode = "calculateAccountCapacity"
  /\ params \in [account : [weekly_invite_slots : PlanWeekly,
                            overall_friend_slots : PlanOverall],
                 requestedCount : PlanRequested]
  /\ pc = "call"
  /\ result = Null
  /\ atRest

\* calculateAccountCapacity(account, requestedCount) returns its decision
Plan ==
  /\ mode = "calculateAccountCapacity"
  /\ pc = "call"
  /\ result' = calculateAccountCapacity(params.account.weekly_invite_slots,
                                        params.account.overall_friend_slots,
                                        params.requestedCount)
  /\ pc' = "return"
  /\ UNCHANGED <<mode, params, connVars, envVars, updatedAccount, targetsToProcess,
                 loopVars, cleanVars>>

PlanNext == Plan

PlanSpec == PlanInit /\ [][PlanNext]_vars

\* --------------------------------------- selectInvitesToCancel on its own
\* an id of the caller's list whose invite is no longer pending
StaleId == "p0"

\* the peers whose invite may be pending, in the order of the relationship list
PendingOrder == PeerOrder \o <<"p4">>

\* the pending entries of a relationship list: one entry per steamId, with
\* the time of the request where the entry has one (friend_since)
PendingEntries == [steamId : Range(PendingOrder), friend_since : {Null, 1, 2}]

\* pending lists up to renaming of the peers: the list's ids are the first
\* ids of PendingOrder, in that order (the hint ranges over every order)
PendingLists ==
  {f \in SeqsUpTo(PendingEntries, Len(PendingOrder)) :
     \A n \in 1..Len(f) : f[n].steamId = PendingOrder[n]}

\* pendingInvites.map(inv => inv.steamId)
steamIdsOf(pendingInvites) ==
  [n \in 1..Len(pendingInvites) |-> pendingInvites[n].steamId]

SelectInit ==
  /\ mode = "selectInvitesToCancel"
  /\ params \in [pendingInvites : PendingLists,
                 slotsNeeded : 0..MaxSlotsNeeded,
                 oldestPendingInvites : SeqsUpTo(Range(PendingOrder) \cup {StaleId},
                                                 MaxOldestPending)]
  /\ pc = "call"
  /\ result = <<>>
  /\ atRest

\* selectInvitesToCancel(pendingInvites, slotsNeeded, oldestPendingInvites)
\* returns toCancel
Select ==
  /\ mode = "selectInvitesToCancel"
  /\ pc = "call"
  /\ result' = selectInvitesToCancel(steamIdsOf(params.pendingInvites),
                                     params.slotsNeeded,
                                     params.oldestPendingInvites)
  /\ pc' = "return"
  /\ UNCHANGED <<mode, params, connVars, envVars, updatedAccount, targetsToProcess,
                 loopVars, cleanVars>>

SelectNext == Select

SelectSpec == SelectInit /\ [][SelectNext]_vars

\* ------------------------------------------------- classifyError on its own
\* the error codes given to classifyError: none (errorCode: null), the
\* codes of the client, and codes the worker has no entry for
ErrorCodes == {Null} \cup 0..MaxCode

ClassifyInit ==
  /\ mode = "classifyError"
  /\ params \in [errorCode : ErrorCodes]
  /\ pc = "call"
  /\ result = Null
  /\ atRest

Classify ==
  /\ mode = "classifyError"
  /\ pc = "call"
  /\ result' = classifyError(params.errorCode)
  /\ pc' = "return"
  /\ UNCHANGED <<mode, params, connVars, envVars, updatedAccount, targetsToProcess,
                 loopVars, cleanVars>>

ClassifyNext == Classify

ClassifySpec == ClassifyInit /\ [][ClassifyNext]_vars

\* --------------------------------------------- verifyInviteStatus on its own
\* the connector as a timed-out request finds it: logged on, logged on with
\* the session lost since, or never connected; any relationship list
VerifyInit ==
  /\ mode = "verifyInviteStatus"
  /\ params \in [steamId : Peers]
  /\ client \in BOOLEAN
  /\ isConnected = client
  /\ clientSteamID \in {s \in BOOLEAN : s => client}
  /\ myFriends \in FriendLists
  /\ extraFriends = 0 /\ removals = {}
  /\ pc = "call"
  /\ result = <<>>
  /\ updatedAccount = Null /\ targetsToProcess = <<>>
  /\ results = emptyResults /\ i = 0 /\ dispatch = "idle" /\ callbacks = {}
  /\ verification = noVerification /\ requestsIssued = <<>> /\ delaysAfter = <<>>
  /\ cleaner = emptyCleaner /\ cancelsIssued = <<>>

\* mutant: the verification takes the entry it found out of the list
Reconcile_Consumes ==
  /\ mode = "verifyInviteStatus"
  /\ pc \in {"call", "once"}
  /\ LET v == verifyInviteStatus(params.steamId,
                  getFriendsList(client, clientSteamID, myFriends, extraFriends))
     IN  result' = Append(result, [friends |-> myFriends,
                                   readable |-> client /\ clientSteamID,
                                   verification |-> v, outcome |-> timeoutResult(v)])
  /\ myFriends' = withoutEntry(myFriends, params.steamId)
  /\ pc' = IF pc = "call" THEN "once" ELSE "twice"
  /\ UNCHANGED <<mode, params, connVars, extraFriends, removals, updatedAccount,
                 targetsToProcess, loopVars, cleanVars>>

\* one call of verifyInviteStatus(steamId) and the outcome the timer callback
\* of addFriend makes of it; the list read and the session are recorded
Reconcile ==
  /\ mode = "verifyInviteStatus"
  /\ pc \in {"call", "once"}
  /\ LET v == verifyInviteStatus(params.steamId,
                  getFriendsList(client, clientSteamID, myFriends, extraFriends))
     IN  result' = Append(result, [friends |-> myFriends,
                                   readable |-> client /\ clientSteamID,
                                   verification |-> v, outcome |-> timeoutResult(v)])
  /\ pc' = IF pc = "call" THEN "once" ELSE "twice"
  /\ UNCHANGED <<mode, params, connVars, envVars, updatedAccount,
                 targetsToProcess, loopVars, cleanVars>>

\* between the two calls the session is lost
SnapshotSessionLost ==
  /\ mode = "verifyInviteStatus"
  /\ pc = "once"
  /\ clientSteamID
  /\ clientSteamID' = FALSE
  /\ UNCHANGED <<mode, params, client, isConnected, envVars, pc, result,
                 updatedAccount, targetsToProcess, loopVars, cleanVars>>

\* between the two calls the service records the invite
SnapshotInviteRecorded ==
  /\ mode = "verifyInviteStatus"
  /\ pc = "once"
  /\ withInviteSent(myFriends, params.steamId) # myFriends
  /\ myFriends' = withInviteSent(myFriends, params.steamId)
  /\ UNCHANGED <<mode, params, connVars, extraFriends, removals, pc, result,
                 updatedAccount, targetsToProcess, loopVars, cleanVars>>

VerifyNext ==
  \/ Reconcile
  \/ SnapshotSessionLost
  \/ SnapshotInviteRecorded

VerifySpec == VerifyInit /\ [][VerifyNext]_vars

\* ------------------------------ a failed request, from connector to bucket
MapInit ==
  /\ mode = "mapSteamErrorToResult"
  /\ params \in [eresult : ErrorCodes]
  /\ pc = "call"
  /\ result = Null
  /\ atRest

\* the connector maps the client's error (addFriend's callback), and the
\* send loop classifies the code of the result it is given
MapError ==
  /\ mode = "mapSteamErrorToResult"
  /\ pc = "call"
  /\ LET inviteResult == mapSteamErrorToResult(params.eresult)
     IN  result' = [inviteResult |-> inviteResult,
                    errorType |-> classifyError(inviteResult.eresult)]
  /\ pc' = "return"
  /\ UNCHANGED <<mode, params, connVars, envVars, updatedAccount, targetsToProcess,
                 loopVars, cleanVars>>

MapNext == MapError

MapSpec == MapInit /\ [][MapNext]_vars

\* ------------------------------------------------------------ observations
returned == dispatch = "returned"

successful == results.successful
failed == results.failed
notAttempted == results.temporaryFailures

failedIds == [m \in 1..Len(failed) |-> failed[m].steamId]

\* how many targets have had their outcome recorded
attempts == Len(successful) + Len(failed)

Count(s, x) == Cardinality({n \in 1..Len(s) : s[n] = x})

Last(s) == s[Len(s)]

\* a failure with its code is in failed: it is the last one, the loop has
\* returned, no request went out for a later target and the later targets
\* are notAttempted, in order
StoppedAt(m) ==
  /\ m = Len(failed)
  /\ returned
  /\ failed[m].steamId = targetsToProcess[attempts]
  /\ notAttempted = SubSeq(targetsToProcess, attempts + 1, Len(targetsToProcess))
  /\ \A r \in 1..Len(requestsIssued) : requestsIssued[r] <= attempts - 1

\* the peer's entry in the relationship list the client holds
HasRelationship(peer, rels) ==
  \E n \in 1..Len(myFriends) :
     myFriends[n].steamId = peer /\ myFriends[n].relationship \in rels

Readable == client /\ clientSteamID

\* the step in which the request that timed out resolves
Reconciles == pc = "send_grace" /\ pc' # "send_grace"

currentTarget == targetsToProcess[i + 1]

\* --------------------------------------------------------------------- C1
\* C1 as stated: when the send loop has returned, the peer ids of the three
\* buckets are pairwise disjoint and together are exactly the truncated list
C1_DisjointIds ==
  returned =>
    /\ Range(successful) \cap Range(failedIds) = {}
    /\ Range(successful) \cap Range(notAttempted) = {}
    /\ Range(failedIds) \cap Range(notAttempted) = {}
    /\ Range(successful) \cup Range(failedIds) \cup Range(notAttempted)
         = Range(targetsToProcess)

\* C1 (amended): when the send loop has returned, every position of the
\* truncated list is in exactly one bucket (each peer id occurs in the buckets
\* together as often as in the list, the untried tail is notAttempted), and
\* the buckets' ids are pairwise disjoint when no peer id is repeated in the list
C1_Partition ==
  returned =>
    /\ \A p \in Peers :
         Count(successful, p) + Count(failedIds, p) + Count(notAttempted, p)
           = Count(targetsToProcess, p)
    /\ notAttempted = SubSeq(targetsToProcess, attempts + 1, Len(targetsToProcess))
    /\ NoRepeat(targetsToProcess) =>
         /\ Range(successful) \cap Range(failedIds) = {}
         /\ Range(successful) \cap Range(notAttempted) = {}
         /\ Range(failedIds) \cap Range(notAttempted) = {}
         /\ Range(successful) \cup Range(failedIds) \cup Range(notAttempted)
              = Range(targetsToProcess)

C1_Witness ==
  /\ returned
  /\ NoRepeat(targetsToProcess)
  /\ Len(successful) > 0 /\ Len(failed) > 0 /\ Len(notAttempted) > 0

\* --------------------------------------------------------------------- C2
\* C2: a failure with the rate-limit code 15 is in failed, the error counter
\* is incremented, no request is issued for a later target and exactly the
\* later targets are notAttempted, in their order
C2_RateLimitStops ==
  \A m \in 1..Len(failed) :
     failed[m].errorCode \in {15} =>
        /\ StoppedAt(m)
        /\ results.invitationErrorCount = 1

C2_Witness ==
  /\ Len(targetsToProcess) = 3
  /\ Len(failed) = 1 /\ failed[1].errorCode = 15
  /\ Len(successful) = 1
  /\ notAttempted = <<targetsToProcess[3]>>
  /\ NoRepeat(targetsToProcess)

\* --------------------------------------------------------------------- C3
\* C3: once dispatch has completed in a processInvites run, the cooldown
\* advisory is set if and only if a failure with code 15 was recorded
C3_CooldownIffRateLimit ==
  (mode = "processInvites" /\ returned) =>
     (result.cooldown_info.should_apply
        <=> \E m \in 1..Len(result.results.failed) :
               result.results.failed[m].errorCode = 15)

C3_Witness ==
  /\ mode = "processInvites" /\ returned
  /\ ~result.cooldown_info.should_apply
  /\ result.results.limitReached
  /\ \E m \in 1..Len(result.results.failed) : result.results.failed[m].errorCode = Null
  /\ \E m \in 1..Len(result.results.failed) : result.results.failed[m].errorCode = 29

\* --------------------------------------------------------------------- C4
\* C4: a failure with an account-limit code (25 or 84) is in failed, sets
\* limitReached, stops the loop with the later targets notAttempted and no
\* later request, leaves the error counter at 0 and the advisory unset
C4_AccountLimitStops ==
  \A m \in 1..Len(failed) :
     failed[m].errorCode \in {25, 84} =>
        /\ StoppedAt(m)
        /\ results.limitReached
        /\ results.invitationErrorCount = 0
        /\ ~result.cooldown_info.should_apply

C4_Witness ==
  /\ mode = "processInvites"
  /\ Len(failed) = 2 /\ failed[2].errorCode = 84
  /\ Len(notAttempted) = 1

\* --------------------------------------------------------------------- C5
\* C5: a failure with the banned code 17 sets accountBanned and stops the
\* loop at once: no request and no delay for a later target, the later
\* targets notAttempted
C5_BannedStops ==
  \A m \in 1..Len(failed) :
     failed[m].errorCode \in {17} =>
        /\ StoppedAt(m)
        /\ results.accountBanned
        /\ \A d \in 1..Len(delaysAfter) : delaysAfter[d] < attempts - 1

C5_Witness ==
  /\ Len(failed) = 1 /\ failed[1].errorCode = 17
  /\ Len(successful) = 1
  /\ Len(notAttempted) = 1
  /\ delaysAfter = <<0>>

\* --------------------------------------------------------------------- C6
\* C6: a failure that is no stop condition is in failed with its
\* classification and the loop goes on: when the loop has returned without a
\* stop code every target was attempted, so notAttempted is non-empty only
\* after a rate-limit, account-limit or banned failure
C6_OtherFailuresContinue ==
  /\ \A m \in 1..Len(failed) :
        failed[m].errorType =
          (IF failed[m].errorCode \in {14, 40, 17} THEN "definitive" ELSE "temporary")
  /\ returned =>
       /\ (\A m \in 1..Len(failed) : failed[m].errorCode \notin {15, 25, 84, 17})
             => attempts = Len(targetsToProcess)
       /\ Len(notAttempted) > 0 => Last(failed).errorCode \in {15, 25, 84, 17}
       /\ mode = "processInvites" => result.success

C6_Witness ==
  /\ returned
  /\ Len(failed) = 3
  /\ failed[1].errorCode = Null /\ failed[2].errorCode = 2 /\ failed[3].errorCode = 14
  /\ notAttempted = <<>>

\* --------------------------------------------------------------------- C7
\* C7: when a request has timed out and the relationship list read after the
\* grace wait has the peer as invite_sent, the peer is recorded in successful
\* and no failure is recorded
C7_TimeoutVerifiedSent ==
  [][(Reconciles /\ Readable /\ HasRelationship(currentTarget, {2, 4}))
       => /\ results'.successful = Append(results.successful, currentTarget)
          /\ results'.failed = results.failed]_vars

C7_Witness ==
  /\ verification.idx = attempts - 1
  /\ verification.canVerify /\ verification.inviteSent
  /\ Len(successful) > 0
  /\ Last(successful) = targetsToProcess[verification.idx + 1]
  /\ NoRepeat(targetsToProcess)

\* --------------------------------------------------------------------- C8
\* C8: when a request has timed out and the list is readable, a peer that is
\* a confirmed friend gives a failure with code 14 classified definitive, a
\* peer in neither set gives a failure with code 29 classified temporary,
\* and in neither case is the peer recorded as successful
C8_TimeoutVerifiedNotSent ==
  [][(Reconciles /\ Readable /\ ~HasRelationship(currentTarget, {2, 4}))
       => /\ results'.successful = results.successful
          /\ results'.failed = Append(results.failed,
               IF HasRelationship(currentTarget, {3})
               THEN [steamId |-> currentTarget, errorCode |-> 14,
                     errorType |-> "definitive"]
               ELSE [steamId |-> currentTarget, errorCode |-> 29,
                     errorType |-> "temporary"])]_vars

C8_Witness ==
  /\ verification.idx = 1 /\ attempts = 2
  /\ verification.canVerify /\ verification.alreadyFriends
  /\ failed = <<[steamId |-> targetsToProcess[1], errorCode |-> 29,
                 errorType |-> "temporary"],
               [steamId |-> targetsToProcess[2], errorCode |-> 14,
                 errorType |-> "definitive"]>>
  /\ callbacks = {0, 1}

\* --------------------------------------------------------------------- C9
\* C9: when a request has timed out and the relationship list cannot be
\* read, the target is recorded in failed as a temporary failure (code 29)
\* and not in successful
C9_TimeoutUnverifiable ==
  [][(Reconciles /\ ~Readable)
       => /\ results'.successful = results.successful
          /\ results'.failed = Append(results.failed,
               [steamId |-> currentTarget, errorCode |-> 29,
                errorType |-> "temporary"])]_vars

C9_Witness ==
  /\ verification.idx = attempts - 1
  /\ ~verification.canVerify
  /\ Len(failed) > 0
  /\ Last(failed) = [steamId |-> targetsToProcess[verification.idx + 1],
                     errorCode |-> 29, errorType |-> "temporary"]
  /\ HasRelationship(targetsToProcess[verification.idx + 1], {2, 4})

\* -------------------------------------------------------------------- C10
\* C10: a request handed to the client always resolves, also when the
\* callback never comes, with one recorded outcome per target, and the send
\* loop returns
C10_RequestsResolve ==
  /\ (pc = "send_pending") ~> (pc \notin {"send_pending", "send_grace"})
  /\ (dispatch = "running") ~> returned
  /\ [](attempts = IF pc \in {"send_delay", "finally", "done"} /\ dispatch # "idle"
                   THEN i + 1 ELSE i)

C10_Witness ==
  /\ returned
  /\ Len(targetsToProcess) = 3
  /\ callbacks = {0, 1, 2}
  /\ attempts = 3

\* -------------------------------------------------------------------- C11
\* the connection attempt of a processInvites run has failed
connectFailed == mode = "processInvites" /\ pc = "finally" /\ ~isConnected

\* what processInvites delivers when it could not connect
connectionFailureDelivered ==
  /\ mode = "processInvites"
  /\ pc \in {"finally", "done"}
  /\ result.cooldown_info.reason = "connection_failure"

\* C11: when the session cannot be established (error or timeout of the
\* connection), processInvites returns success = false with the advisory set,
\* and nothing was done per target: no request, no cancellation, no capacity
\* plan (the account updates are the ones it started with, no batch was
\* cut), successful and failed empty
C11_ConnectFailureIsHard ==
  /\ connectFailed => connectionFailureDelivered
  /\ connectionFailureDelivered =>
       /\ ~result.success
       /\ result.cooldown_info.should_apply
       /\ requestsIssued = <<>>
       /\ cancelsIssued = <<>>
       /\ dispatch = "idle" /\ targetsToProcess = <<>>
       /\ cleaner = emptyCleaner
       /\ result.account_updates = initialResult(params.account).account_updates
       /\ ~result.results.limitReached
       /\ result.results.successful = <<>> /\ result.results.failed = <<>>

C11_Witness ==
  /\ connectionFailureDelivered
  /\ pc = "done"
  /\ Len(params.targets) = 3
  /\ params.account.weekly_invite_slots > 0

\* -------------------------------------------------------------------- C12
\* C12 as stated: a processInvites run whose session was established (the
\* connector is still connected when the finally block is reached) has
\* success = true
C12_EstablishedSucceeds ==
  (mode = "processInvites" /\ pc = "finally" /\ isConnected) => result.success

\* positions of processInvites after the statistics refresh succeeded
afterStats ==
  {"cleanup_list", "cleanup_cancel", "send_issue", "send_pending", "send_grace",
   "send_delay"}

\* C12 (amended): a run whose session was established and whose statistics
\* refresh succeeded ends with success = true whatever the later list,
\* cancellation and request calls return or throw; a run whose statistics
\* refresh failed ends with success = false and an error, without advisory
\* and with no per-target work; the finally block leaves the result as it is
C12_HardFailures ==
  [][/\ (pc = "stats" /\ pc' # "stats" /\ Readable)
          => (pc' = "finally" => result'.success /\ ~result'.error)
     /\ (mode = "processInvites" /\ pc \in afterStats /\ pc' = "finally")
          => (result'.success /\ ~result'.error)
     /\ (pc = "stats" /\ pc' # "stats" /\ ~Readable)
          => /\ pc' = "finally"
             /\ ~result'.success /\ result'.error
             /\ ~result'.cooldown_info.should_apply
             /\ requestsIssued' = <<>> /\ cancelsIssued' = <<>>
     /\ (pc = "finally") => result' = result]_vars

C12_Witness ==
  /\ mode = "processInvites" /\ returned
  /\ result.success
  /\ cleaner.failed_steam_ids # <<>>
  /\ ~clientSteamID /\ isConnected
  /\ \E m \in 1..Len(result.results.failed) : result.results.failed[m].errorCode = Null

\* ---------------------------------------------- the capacity decision, observed
planned == mode = "calculateAccountCapacity" /\ pc = "return"

weeklyAllowance == params.account.weekly_invite_slots
overallUsed == params.account.overall_friend_slots
requested == params.requestedCount

\* the allowance is a number (the field is present)
weeklyKnown == weeklyAllowance # Null
measured == overallUsed # Null

\* -------------------------------------------------------------------- C13
\* C13 as stated, for an allowance that is present and not negative and a
\* measured overallUsed: maxSendable <= weeklyAllowance, and whenever
\* needsEviction is false, overallUsed + maxSendable <= 250, in the
\* weeklyAllowance <= 0 branch too
C13_CeilingInEveryBranch ==
  (planned /\ weeklyKnown /\ weeklyAllowance >= 0 /\ measured) =>
     /\ result.max_sendable <= weeklyAllowance
     /\ ~result.needs_cleanup => overallUsed + result.max_sendable <= MAX_OVERALL_SLOTS

\* C13 (amended): maxSendable <= weeklyAllowance for an allowance that is not
\* negative (maxSendable is 0 for a negative or missing one), and whenever
\* the account can send, overallUsed is measured and needsEviction is false,
\* overallUsed + maxSendable <= 250; with weeklyAllowance <= 0 the decision
\* is maxSendable = 0 without eviction whatever overallUsed is
C13_CapacityInvariant ==
  planned =>
     /\ (weeklyKnown /\ weeklyAllowance >= 0) => result.max_sendable <= weeklyAllowance
     /\ (~weeklyKnown \/ weeklyAllowance <= 0) =>
           (result.max_sendable = 0 /\ ~result.needs_cleanup /\ ~result.can_send)
     /\ (result.can_send /\ measured /\ ~result.needs_cleanup) =>
           overallUsed + result.max_sendable <= MAX_OVERALL_SLOTS

C13_Witness ==
  /\ planned
  /\ weeklyAllowance = 2 /\ requested = 3 /\ overallUsed = MAX_OVERALL_SLOTS - 2
  /\ result.max_sendable = 2 /\ ~result.needs_cleanup

\* -------------------------------------------------------------------- C14
\* C14: whenever the decision asks for eviction, evictionCount is
\* overallUsed - (250 - maxSendable) with maxSendable = min(requested,
\* weeklyAllowance), it is at least 1 and exact: (overallUsed -
\* evictionCount) + maxSendable = 250; weeklyAllowance 30, overallUsed 240,
\* requested 20 gives maxSendable 20 and an eviction of 10
C14_EvictionCountExact ==
  planned =>
     /\ result.needs_cleanup =>
          /\ weeklyKnown /\ measured
          /\ result.max_sendable = Min(requested, weeklyAllowance)
          /\ result.cleanup_needed
                = overallUsed - (MAX_OVERALL_SLOTS - result.max_sendable)
          /\ result.cleanup_needed >= 1
          /\ (overallUsed - result.cleanup_needed) + result.max_sendable
                = MAX_OVERALL_SLOTS
     /\ (weeklyAllowance = 30 /\ overallUsed = 240 /\ requested = 20) =>
          /\ result.max_sendable = 20
          /\ result.needs_cleanup
          /\ result.cleanup_needed = 10

C14_Witness ==
  /\ planned
  /\ weeklyAllowance = 30 /\ overallUsed = 240 /\ requested = 20
  /\ result.needs_cleanup /\ result.cleanup_needed = 10

\* -------------------------------------------------------------------- C15
\* C15: with a measured overallUsed and overallUsed + min(requested,
\* weeklyAllowance) <= 250 the decision asks for no eviction and its
\* evictionCount is 0 (a missing allowance counts as 0)
C15_NoEvictionWhenFits ==
  (planned /\ measured
     /\ overallUsed + Min(requested, IF weeklyKnown THEN weeklyAllowance ELSE 0)
           <= MAX_OVERALL_SLOTS)
    => (~result.needs_cleanup /\ result.cleanup_needed = 0)

C15_Witness ==
  /\ planned
  /\ weeklyAllowance = 3 /\ requested = 2 /\ overallUsed = MAX_OVERALL_SLOTS - 2
  /\ result.can_send /\ ~result.needs_cleanup /\ result.max_sendable = 2

\* -------------------------------------------------------------------- C16
\* C16: when overallUsed was never measured (null) the decision never asks
\* for eviction, and with weeklyAllowance > 0 it is canSend with maxSendable
\* = min(requested, weeklyAllowance)
C16_UnmeasuredNeverEvicts ==
  (planned /\ ~measured) =>
     /\ ~result.needs_cleanup /\ result.cleanup_needed = 0
     /\ (weeklyKnown /\ weeklyAllowance > 0) =>
          /\ result.can_send
          /\ result.max_sendable = Min(requested, weeklyAllowance)

C16_Witness ==
  /\ planned /\ ~measured
  /\ weeklyAllowance = 30 /\ requested = 3
  /\ result.can_send /\ result.max_sendable = 3 /\ ~result.needs_cleanup

\* -------------------------------------------------------------------- C18
\* C18: in every decision weeklyLimited is true whenever weeklyAllowance <
\* requested (a missing allowance counts as 0), in every branch, and
\* overallLimited is true exactly when eviction was required
C18_LimitFlags ==
  planned =>
     /\ ((IF weeklyKnown THEN weeklyAllowance ELSE 0) < requested)
          => result.weekly_limited
     /\ result.overall_limited <=> result.needs_cleanup

\* -------------------------------------------------------------------- C17
\* the account of the run has no weekly allowance left, or none is given
withoutAllowance ==
  mode = "processInvites"
    /\ (params.account.weekly_invite_slots = Null
          \/ params.account.weekly_invite_slots <= 0)

\* C17: with weeklyAllowance <= 0 or missing the plan is canSend = false,
\* maxSendable = 0, needsEviction = false for every overallUsed and every
\* requested count, and the processInvites run issues no relationship
\* request and no cancellation: it ends after the plan with limitReached
C17_NoAllowanceNoWork ==
  withoutAllowance =>
     /\ \A o \in PlanOverall, n \in PlanRequested :
          LET d == calculateAccountCapacity(params.account.weekly_invite_slots, o, n)
          IN  ~d.can_send /\ d.max_sendable = 0 /\ ~d.needs_cleanup
     /\ requestsIssued = <<>> /\ cancelsIssued = <<>>
     /\ dispatch = "idle" /\ pc \notin afterStats
     /\ (pc \in {"finally", "done"} /\ result.success) =>
          /\ result.results.limitReached
          /\ result.results.successful = <<>> /\ result.results.failed = <<>>
          /\ ~result.account_updates.cleanup_performed

C17_Witness ==
  /\ withoutAllowance
  /\ pc = "done" /\ result.success
  /\ extraFriends = MAX_OVERALL_SLOTS - 1
  /\ \E n \in 1..Len(myFriends) : myFriends[n].relationship = REL_INVITE_SENT
  /\ Len(params.targets) = 3

\* ------------------------------------------------- the selection, observed
selected == mode = "selectInvitesToCancel" /\ pc = "return"

pendingIds == Range(steamIdsOf(params.pendingInvites))

\* the time of the request of a pending peer
friendSince(id) ==
  (CHOOSE e \in Range(params.pendingInvites) : e.steamId = id).friend_since

\* the ids the fallback pass chose: the hinted pass takes every pending id
\* of the hint until the count is reached, and then there is no fallback
fallbackChosen == SelectSeq(result, LAMBDA id : id \notin Range(params.oldestPendingInvites))

\* -------------------------------------------------------------------- C19
\* C19: for every pending list, count and hint (stale and repeated ids
\* included) the selection holds only ids of the pending list, no id twice,
\* at most count ids and at most as many as there are pending entries
C19_SelectionWithinPending ==
  selected =>
     /\ Range(result) \subseteq pendingIds
     /\ NoRepeat(result)
     /\ Len(result) <= params.slotsNeeded
     /\ Len(result) <= Len(params.pendingInvites)

C19_Witness ==
  /\ selected
  /\ params.slotsNeeded = 3
  /\ params.oldestPendingInvites = <<"p2", StaleId, "p2">>
  /\ Len(params.pendingInvites) = 3
  /\ Len(result) = 3 /\ result[1] = "p2"

\* -------------------------------------------------------------------- C20
\* C20: the ids the fallback pass chose are in ascending order of the time
\* of their request, no pending entry left out is older than a chosen one,
\* and an entry without a time is never chosen by the fallback pass
C20_FallbackOldestFirst ==
  selected =>
     /\ \A n \in 1..Len(fallbackChosen) : friendSince(fallbackChosen[n]) # Null
     /\ \A n, m \in 1..Len(fallbackChosen) :
          n < m => friendSince(fallbackChosen[n]) <= friendSince(fallbackChosen[m])
     /\ \A n \in 1..Len(fallbackChosen) : \A id \in pendingIds \ Range(result) :
          friendSince(id) # Null => friendSince(fallbackChosen[n]) <= friendSince(id)

\* -------------------------------------------------------------------- C21
\* the ids of the hint that are pending, each once, in the hint's order
liveHint ==
  Dedup(SelectSeq(params.oldestPendingInvites, LAMBDA id : id \in pendingIds))

\* the pending ids the hinted pass leaves, with a time of request
eligibleRest == {id \in pendingIds \ Range(liveHint) : friendSince(id) # Null}

\* C21: the selection is the live ids of the hint, in the hint's order and
\* without the stale ids, up to count, followed by the fallback selections;
\* for count 3 and a hint of 2 live ids and 1 stale id it is the 2 hinted
\* ids and 1 fallback id, the oldest of the remaining pending entries
C21_HintedThenOldest ==
  selected =>
     /\ Len(result) >= Min(Len(liveHint), params.slotsNeeded)
     /\ SubSeq(result, 1, Min(Len(liveHint), params.slotsNeeded))
          = Slice(liveHint, params.slotsNeeded)
     /\ \A n \in (Len(liveHint) + 1)..Len(result) :
          result[n] \in pendingIds \ Range(liveHint)
     /\ (/\ params.slotsNeeded = 3
         /\ Len(params.oldestPendingInvites) = 3
         /\ Len(liveHint) = 2
         /\ StaleId \in Range(params.oldestPendingInvites)
         /\ eligibleRest # {})
          => /\ Len(result) = 3
             /\ result[3] \in eligibleRest
             /\ \A id \in eligibleRest : friendSince(result[3]) <= friendSince(id)

\* -------------------------------------------------------------------- C22
\* C22: in one run of processInvites a cancellation is issued only before
\* the send loop is called and before any request; when the send loop is
\* called every selected cancellation has been issued, in the order selected,
\* and the batch is the one the capacity of the updated overall count gives;
\* a request is issued only inside the send loop, after all cancellations
C22_PhasesOrdered ==
  [][mode = "processInvites" =>
       /\ (cancelsIssued' # cancelsIssued) =>
             /\ pc = "cleanup_cancel" /\ dispatch = "idle" /\ dispatch' = "idle"
             /\ requestsIssued' = <<>>
       /\ (dispatch = "idle" /\ dispatch' # "idle") =>
             /\ cancelsIssued' = cleaner'.toCancel
             /\ requestsIssued' = <<>>
             /\ Len(targetsToProcess') =
                  Min(Len(params.targets),
                      calculateAccountCapacity(params.account.weekly_invite_slots,
                                               updatedAccount',
                                               Len(params.targets)).max_sendable)
       /\ (requestsIssued' # requestsIssued) =>
             /\ dispatch = "running"
             /\ cancelsIssued' = cleaner.toCancel /\ cancelsIssued' = cancelsIssued
  ]_vars

\* a run that cancelled an invite and then issued a request
C22_Witness ==
  /\ mode = "processInvites"
  /\ Len(cancelsIssued) > 0
  /\ cancelsIssued = cleaner.toCancel
  /\ Len(requestsIssued) > 0
  /\ result.account_updates.cleanup_performed

\* -------------------------------------------------------------------- C23
\* max_sendable of the capacity computed from the overall count as it is
\* after the cleanup
finalMaxSendable ==
  calculateAccountCapacity(params.account.weekly_invite_slots, updatedAccount,
                           Len(params.targets)).max_sendable

\* C23: the batch handed to the send loop is the prefix of the input target
\* list of length min(|targets|, max_sendable), max_sendable taken from the
\* capacity recomputed after the cleanup; the requests of the batch are for
\* positions of that prefix and number at most max_sendable, which is at
\* most the weekly allowance
C23_BatchIsPrefix ==
  (mode = "processInvites" /\ dispatch # "idle") =>
     /\ targetsToProcess =
          SubSeq(params.targets, 1, Min(Len(params.targets), finalMaxSendable))
     /\ \A k \in 1..Len(requestsIssued) :
          /\ requestsIssued[k] < Min(Len(params.targets), finalMaxSendable)
          /\ targetsToProcess[requestsIssued[k] + 1]
               = params.targets[requestsIssued[k] + 1]
     /\ Len(requestsIssued) <= finalMaxSendable
     /\ attempts <= finalMaxSendable
     /\ finalMaxSendable <= params.account.weekly_invite_slots

\* a batch of three targets cut to the one the allowance permits, and sent
C23_Witness ==
  /\ mode = "processInvites" /\ returned
  /\ Len(params.targets) = 3
  /\ params.account.weekly_invite_slots = 1
  /\ targetsToProcess = <<params.targets[1]>>
  /\ requestsIssued = <<0>>

\* -------------------------------------------------------------------- C24
\* C24: whenever the send loop runs on a measured overall count, that count
\* (as the cleanup left it) plus the size of the batch is at most the
\* ceiling, and so is the new_overall_slots reported, also after a cleanup
\* that freed fewer slots than asked or failed
C24_BatchFitsCeiling ==
  (mode = "processInvites" /\ dispatch # "idle" /\ updatedAccount # Null) =>
     /\ updatedAccount + Len(targetsToProcess) <= MAX_OVERALL_SLOTS
     /\ returned => result.account_updates.new_overall_slots <= MAX_OVERALL_SLOTS

\* -------------------------------------------------------------------- C25
\* the entries of s at the positions of S, in the order of s
AtPositions(s, S) ==
  LET F[n \in 0..Len(s)] ==
        IF n = 0 THEN <<>>
        ELSE IF n \in S THEN Append(F[n - 1], s[n]) ELSE F[n - 1]
  IN  F[Len(s)]

\* the requests of the batch whose outcome is not in a bucket yet
awaitingOutcome == {k \in Range(requestsIssued) : k >= attempts}

\* C25: the targets are processed one at a time and in list order: at most
\* one request of the batch awaits its outcome, it is the request of the
\* current target, and it is issued only when every earlier target has its
\* outcome in a bucket; successful and failed list the attempted targets in
\* the order of the target list
C25_OneAtATime ==
  dispatch # "idle" =>
     /\ Cardinality(awaitingOutcome) <= 1
     /\ \A a, b \in 1..Len(requestsIssued) : a < b => requestsIssued[a] < requestsIssued[b]
     /\ pc \in {"send_pending", "send_grace"} =>
           /\ awaitingOutcome = {i}
           /\ Last(requestsIssued) = i
           /\ attempts = i
     /\ pc = "send_issue" => attempts = i /\ awaitingOutcome = {}
     /\ pc = "send_delay" => attempts = i + 1 /\ awaitingOutcome = {}
     /\ returned => awaitingOutcome = {}
     /\ \E S \in SUBSET (1..attempts) :
           /\ successful = AtPositions(targetsToProcess, S)
           /\ failedIds = AtPositions(targetsToProcess, (1..attempts) \ S)

\* a batch whose second target failed between two successes
C25_Witness ==
  /\ returned
  /\ requestsIssued = <<0, 1, 2>>
  /\ successful = <<targetsToProcess[1], targetsToProcess[3]>>
  /\ failedIds = <<targetsToProcess[2]>>

\* -------------------------------------------------------------------- C26
\* the codes on which the loop breaks
stopCodes == workerCooldownErrors \cup accountLimitErrors \cup accountBannedErrors

\* the number of attempts that have been followed by another attempt or by
\* the wait for one
followedAttempts ==
  IF returned THEN attempts - 1
  ELSE IF pc = "send_delay" THEN i + 1
  ELSE i

\* C26: the delay between requests is waited exactly once after every
\* attempt that is followed by another (whether it succeeded, failed without
\* stopping or threw), in order, and never after the last target of the
\* batch nor after an attempt that stops the batch
C26_DelayBetweenAttempts ==
  (dispatch # "idle" /\ Len(targetsToProcess) > 0) =>
     /\ delaysAfter = [n \in 1..followedAttempts |-> n - 1]
     /\ \A n \in 1..Len(delaysAfter) : delaysAfter[n] < Len(targetsToProcess) - 1
     /\ pc = "send_delay" => i < Len(targetsToProcess) - 1
     /\ \A m \in 1..Len(failed) :
          failed[m].errorCode \in stopCodes =>
             /\ m = Len(failed) /\ returned
             /\ failed[m].steamId = targetsToProcess[attempts]
             /\ attempts - 1 \notin Range(delaysAfter)

\* a batch of three attempts, the second one failing, with its two delays
C26_Witness ==
  /\ returned
  /\ attempts = 3
  /\ Len(failed) = 1
  /\ delaysAfter = <<0, 1>>

\* -------------------------------------------------------------------- C27
\* the peer ids the requests of the batch were issued for, in order
requestedIds ==
  [k \in 1..Len(requestsIssued) |-> targetsToProcess[requestsIssued[k] + 1]]

\* C27 as stated: in one run no peer id has two requests, whatever the
\* target list contains
C27_OncePerPeer == NoRepeat(requestedIds)

\* C27 (amended): in one run every position of the batch has at most one
\* request, whatever the outcome of the attempt, so a peer id has at most as
\* many requests as it has positions in the batch, and at most one when the
\* list holds no peer id twice
C27_OncePerPosition ==
  /\ NoRepeat(requestsIssued)
  /\ \A k \in 1..Len(requestsIssued) : requestsIssued[k] < Len(targetsToProcess)
  /\ \A p \in Peers : Count(requestedIds, p) <= Count(targetsToProcess, p)
  /\ NoRepeat(targetsToProcess) => NoRepeat(requestedIds)

\* three distinct targets, each requested once although every attempt failed
C27_Witness ==
  /\ returned
  /\ NoRepeat(targetsToProcess)
  /\ requestsIssued = <<0, 1, 2>>
  /\ Len(failed) = 3

\* -------------------------------------------------------------------- C28
\* the overall count the request came with, and the one reported
passedInOverall == params.account.overall_friend_slots
newOverallSlots == result.account_updates.new_overall_slots

\* C28 as stated: a run that performed no eviction reports an overall count
\* not lower than the one passed in, equal to it plus the successful sends
C28_NeverLowerWithoutEviction ==
  (/\ mode = "processInvites" /\ pc \in {"finally", "done"}
   /\ passedInOverall # Null /\ cancelsIssued = <<>>) =>
     /\ newOverallSlots >= passedInOverall
     /\ newOverallSlots = passedInOverall + Len(successful)

\* C28 (amended): the overall count reported is the count last measured in
\* the run plus the successful sends: the statistics refresh replaces the
\* passed-in count by the measured one (higher or lower), only a cleanup
\* that succeeded replaces it again, and with no measurement (connection or
\* refresh failure) the passed-in count is reported
C28_MeasuredPlusSent ==
  [][mode = "processInvites" =>
       /\ (pc = "stats" /\ pc' # "stats" /\ ~result'.error) =>
             updatedAccount' = Len(myFriends) + extraFriends
       /\ (updatedAccount' # updatedAccount /\ pc # "stats") =>
             /\ pc \in {"cleanup_list", "cleanup_cancel"}
             /\ result'.account_updates.cleanup_performed
       /\ newOverallSlots' =
            IF returned' THEN updatedAccount' + Len(successful') ELSE updatedAccount'
       /\ result'.account_updates.slots_used
            = IF returned' THEN Len(successful') ELSE 0
  ]_vars

\* a run without cancellation that reports fewer used slots than it was given
C28_Witness ==
  /\ mode = "processInvites" /\ pc = "done"
  /\ cancelsIssued = <<>>
  /\ passedInOverall = MAX_OVERALL_SLOTS
  /\ result.success
  /\ newOverallSlots < passedInOverall

\* -------------------------------------------------------------------- C29
classified == mode = "classifyError" /\ pc = "return"

\* C29: classifyError returns definitive exactly for the codes 14 (already
\* friends), 40 (blocked) and 17 (banned), and temporary for every other
\* code, the codes without an entry and the null code included
C29_DefinitiveExactly ==
  classified =>
     /\ result \in {"definitive", "temporary"}
     /\ result = "definitive" <=> params.errorCode \in {14, 40, 17}
     /\ params.errorCode = Null => result = "temporary"

\* the blocked code has been classified
C29_Witness == classified /\ params.errorCode = 40 /\ result = "definitive"

\* -------------------------------------------------------------------- C30
\* the two reconciliations of the peer read the same relationship snapshot
sameSnapshot ==
  /\ Len(result) = 2
  /\ result[1].friends = result[2].friends
  /\ result[1].readable = result[2].readable

C32_WithinBatchMaximum ==
  mode = "processInvites" => Len(requestsIssued) <= params.max_invites_per_batch

\* -------------------------------------------------------------------- C33
\* s is an initial part of t
IsPrefix(s, t) == Len(s) <= Len(t) /\ SubSeq(t, 1, Len(s)) = s

\* the awaited request gets its outcome from the client's callback
callbackInTime == pc = "send_pending" /\ pc' \notin {"send_pending", "send_grace"}

\* C33: a request gets its outcome from exactly one of two paths.  When the
\* callback comes before the deadline no reconciliation is made for the
\* request; when the deadline comes first the outcome is the one of the
\* reconciliation and the callback is not consumed by it; a callback that
\* arrives later, at any time, changes no bucket, no flag and no result, and
\* an outcome once recorded is never changed
C33_CallbackOrTimeout ==
  [][/\ callbackInTime =>
          /\ i \in callbacks /\ i \notin callbacks'
          /\ verification' = verification /\ verification.idx # i
          /\ attempts' = attempts + 1
     /\ (pc = "send_pending" /\ pc' = "send_grace") =>
          /\ results' = results /\ callbacks' = callbacks
          /\ verification' = verification
     /\ Reconciles =>
          /\ verification'.idx = i
          /\ callbacks' = callbacks
          /\ attempts' = attempts + 1
     /\ (verification' # verification) => Reconciles
     /\ (callbacks' # callbacks /\ ~callbackInTime
                                /\ requestsIssued' = requestsIssued) =>
          /\ callbacks' \subseteq callbacks
          /\ results' = results /\ result' = result
          /\ pc' = pc /\ i' = i /\ dispatch' = dispatch
          /\ verification' = verification
     /\ IsPrefix(successful, successful') /\ IsPrefix(failed, failed')
  ]_vars

\* a request resolved by the reconciliation as a timeout whose callback came
\* afterwards and was ignored
C33_Witness ==
  /\ returned
  /\ verification.idx # Null
  /\ verification.idx \in Range(requestsIssued)
  /\ callbacks = {}
  /\ Len(failed) = 1 /\ successful = <<>>
  /\ failed[1].errorCode = ERESULT_TIMEOUT

\* -------------------------------------------------------------------- C34
\* the connector after disconnect(): no client, no session, not connected
disconnected == ~client /\ ~isConnected /\ ~clientSteamID

\* C34: every run of processInvites ends, and its result is delivered by
\* the one step that disconnects: that step comes after every call on the
\* client, it happens once, on every path to the end (failure to connect,
\* failed refresh, no allowance, stop, completion), and from then on the
\* connector stays without client and session and nothing else changes
C34_DisconnectsOnce ==
  /\ [][mode = "processInvites" =>
          /\ (pc # "done" /\ pc' = "done") =>
                /\ pc = "finally"
                /\ disconnected'
                /\ result' = result
          /\ (pc = "finally") =>
                /\ pc' \in {"finally", "done"}
                /\ requestsIssued' = requestsIssued
                /\ cancelsIssued' = cancelsIssued
                /\ result' = result
          /\ (pc = "done") =>
                /\ pc' = "done" /\ disconnected /\ disconnected'
                /\ result' = result
                /\ requestsIssued' = requestsIssued
                /\ cancelsIssued' = cancelsIssued
     ]_vars
  /\ (mode = "processInvites") ~> (pc = "done" /\ disconnected)

\* a run that was connected, sent a request and has delivered its result
C34_Witness ==
  /\ mode = "processInvites" /\ pc = "done"
  /\ disconnected
  /\ returned /\ Len(requestsIssued) > 0

\* -------------------------------------------------------------------- C35
\* the stop flags of the send loop's results that hold
stopFlags ==
  {f \in {"rate_limit", "account_limit", "banned"} :
     \/ f = "rate_limit" /\ results.invitationErrorCount > 0
     \/ f = "account_limit" /\ results.limitReached
     \/ f = "banned" /\ results.accountBanned}

\* C35: when the send loop has returned at most one of its three stop flags
\* holds, the error counter is 0 or 1, and targets are left unattempted
\* only with exactly one flag
C35_OneStopFlag ==
  returned =>
     /\ Cardinality(stopFlags) <= 1
     /\ results.invitationErrorCount \in {0, 1}
     /\ notAttempted # <<>> => Cardinality(stopFlags) = 1

\* a batch stopped by an account limit after a success, with targets left
C35_Witness ==
  /\ returned
  /\ stopFlags = {"account_limit"}
  /\ Len(successful) = 1
  /\ Len(notAttempted) = 1

\* -------------------------------------------------------------------- C36
\* the pending invites of the relationship list as it is now
livePending == IdsOfType(myFriends, "invite_sent")

slotsFreed == result.account_updates.slots_freed

\* C36: the ids selected for cancellation are pending in the list read by
\* the cleanup, at most slotsToFree of them and no id twice; a cancellation
\* is attempted only for the next selected id, which then is in exactly one
\* of canceled_steam_ids and failed_steam_ids; when the cleanup is over
\* every selected id was attempted once; slots_freed is the number of
\* successful cancellations, at most min(slotsToFree, pending invites), and
\* 0 when the cleanup failed
C36_CleanupAccounting ==
  [][mode = "processInvites" =>
       /\ (pc = "cleanup_list" /\ pc' = "cleanup_cancel") =>
             /\ Range(cleaner'.toCancel) \subseteq Range(livePending)
             /\ NoRepeat(cleaner'.toCancel)
             /\ Len(cleaner'.toCancel) <= Min(cleaner.slotsToFree, Len(livePending))
       /\ (cancelsIssued' # cancelsIssued) =>
             /\ cancelsIssued' = Append(cancelsIssued, cleaner.toCancel[Len(cancelsIssued) + 1])
             /\ \/ /\ cleaner'.canceled_steam_ids
                        = Append(cleaner.canceled_steam_ids, Last(cancelsIssued'))
                   /\ cleaner'.failed_steam_ids = cleaner.failed_steam_ids
                \/ /\ cleaner'.failed_steam_ids
                        = Append(cleaner.failed_steam_ids, Last(cancelsIssued'))
                   /\ cleaner'.canceled_steam_ids = cleaner.canceled_steam_ids
       /\ cancelsIssued' = SubSeq(cleaner'.toCancel, 1, Len(cancelsIssued'))
       /\ Range(cleaner'.canceled_steam_ids) \cap Range(cleaner'.failed_steam_ids) = {}
       /\ Len(cleaner'.canceled_steam_ids) + Len(cleaner'.failed_steam_ids)
            = Len(cancelsIssued')
       /\ cleaner'.successful_cancellations = Len(cleaner'.canceled_steam_ids)
       /\ (dispatch' # "idle") => cancelsIssued' = cleaner'.toCancel
       /\ slotsFreed' = IF result'.account_updates.cleanup_performed
                        THEN cleaner'.successful_cancellations ELSE 0
       /\ slotsFreed' <= Min(cleaner'.slotsToFree, Len(cleaner'.toCancel))
       /\ (dispatch' # "idle" /\ cleaner'.successful_cancellations = 0) => slotsFreed' = 0
  ]_vars

\* a cleanup asked for two slots that found one pending invite and freed it
C36_Witness ==
  /\ mode = "processInvites" /\ dispatch # "idle"
  /\ cleaner.slotsToFree = 2
  /\ Len(cleaner.toCancel) = 1
  /\ cleaner.canceled_steam_ids = cleaner.toCancel
  /\ slotsFreed = 1

\* -------------------------------------------------------------------- C37
\* the plan of the capacity for the overall count the run holds after a step
planAfter ==
  calculateAccountCapacity(params.account.weekly_invite_slots, updatedAccount',
                           Len(params.targets))

\* C37: in processInvites the capacity is planned only from a measured
\* overall count: a failed refresh ends the run before any plan, a
\* successful one replaces the count (also a null one, and then reports
\* initialization_performed), the decision taken after the refresh (no
\* allowance, cleanup of cleanup_needed slots, or sending) is the one of the
\* plan for the measured count, and cleanup and send loop run only with a
\* measured count
C37_PlansFromMeasured ==
  [][mode = "processInvites" =>
       /\ (pc = "stats" /\ pc' # "stats" /\ result'.error) =>
             /\ pc' = "finally" /\ dispatch' = "idle"
             /\ cleaner' = cleaner /\ targetsToProcess' = targetsToProcess
       /\ (pc = "stats" /\ pc' # "stats" /\ ~result'.error) =>
             /\ updatedAccount' # Null
             /\ updatedAccount' = Len(myFriends) + extraFriends
             /\ result'.account_updates.initialization_performed
                  = (passedInOverall = Null)
             /\ (pc' = "finally") <=> ~planAfter.can_send
             /\ (pc' = "cleanup_list") <=>
                  (planAfter.can_send /\ planAfter.needs_cleanup)
             /\ (pc' = "cleanup_list") =>
                  cleaner'.slotsToFree = planAfter.cleanup_needed
             /\ (pc' = "send_issue") =>
                  Len(targetsToProcess') = planAfter.max_sendable
       /\ (pc' \in {"cleanup_list", "cleanup_cancel"} \/ dispatch' # "idle") =>
             updatedAccount' # Null
  ]_vars

\* the first run of an account: no overall count passed in, one measured,
\* and the send loop started
C37_Witness ==
  /\ mode = "processInvites" /\ dispatch # "idle"
  /\ passedInOverall = Null
  /\ updatedAccount # Null
  /\ result.account_updates.initialization_performed

\* -------------------------------------------------------------------- C38
\* C38: a request is handed to the client only while isConnected holds and
\* a client exists; an attempt on a connector that is not connected is
\* recorded as a failure with no code, with no request, no callback and no
\* change of the connector; and isConnected becomes true only by the
\* loggedOn event arriving while the connection is waited for, which is
\* over once the error event or the 30 s timer came first
C38_RequestsOnlyConnected ==
  [][/\ (requestsIssued' # requestsIssued) =>
          /\ isConnected /\ client
          /\ Last(requestsIssued') \in callbacks'
     /\ (pc = "send_issue" /\ pc' # "send_issue" /\ ~(isConnected /\ client)) =>
          /\ requestsIssued' = requestsIssued
          /\ callbacks' = callbacks
          /\ UNCHANGED connVars
          /\ successful' = successful
          /\ Len(failed') = Len(failed) + 1
          /\ Last(failed').steamId = currentTarget
          /\ Last(failed').errorCode = Null
     /\ (~isConnected /\ isConnected') =>
          /\ pc = "connecting" /\ pc' = "stats"
          /\ client /\ clientSteamID'
     /\ (pc = "connecting" /\ pc' = "finally") => ~isConnected'
     /\ (pc \in {"finally", "done"}) => (isConnected' => isConnected)
  ]_vars

\* the send loop on a connector that never connected: every target failed
\* without a code and nothing was handed to a client
C38_Witness ==
  /\ mode = "direct" /\ returned
  /\ ~isConnected /\ ~client
  /\ requestsIssued = <<>>
  /\ Len(failed) = Len(targetsToProcess)
  /\ \A m \in 1..Len(failed) : failed[m].errorCode = Null

\* -------------------------------------------------------------------- C39
mapped == mode = "mapSteamErrorToResult" /\ pc = "return"

\* C39: for every code of a client error, the code absent included, the
\* errorType the connector attaches to the failure is the kind the worker's
\* classifyError gives for the code of that failure, which is the one
\* recorded in the failed bucket
C39_TypesAgree ==
  mapped =>
     /\ result.inviteResult.errorType = result.errorType
     /\ result.inviteResult.eresult
          = IF params.eresult = Null THEN 0 ELSE params.eresult

\* code 84, which both sides take as temporary
C39_Witness ==
  /\ mapped
  /\ params.eresult = 84
  /\ result.inviteResult.errorType = "temporary"
  /\ result.errorType = "temporary"

====
